---- MODULE Spec2Model ----
(***************************************************************************)
(* Residency, texture pool and read/write paths of MathBackendWebGL        *)
(* (src/math/backends/backend_webgl.ts).                                   *)
(***************************************************************************)
EXTENDS Integers, Sequences, FiniteSets, TLC

\* ------------------------------------------------------------------ bounds
MaxHandles == 2
MaxPending == 2
MaxSteps == 4
MaxReduceSize == 7
MaxScopes == 2

\* --------------------------------------------------------------- constants
NAN_INT32 == -2147483647 - 1
NAN_BOOL == 255

Handles == 1..MaxHandles
\* the data ids the allocation layer issues: those of the handles callers go
\* on using, and one more for the result of a relu that is not used again
DataIds == 1..(MaxHandles + 1)
Shapes == {<<2>>, <<1, 2>>}
NullTexture == 0
NullShape == <<>>
NullValues == [type |-> "null", data |-> <<>>]
NoError == [name |-> "none", id |-> 0]

VARIABLES
  texData,            \* MathBackendWebGL.texData: dataId -> TextureData
  freeTextures,       \* TextureManager free lists: key -> sequence of textures
  allocatedTextures,  \* TextureManager.allocatedTextures: texture t was created for key allocatedTextures[t]
  texContents,        \* device memory: float contents of texture t
  binaryCache,        \* MathBackendWebGL.binaryCache: shader key -> binary
  programs,           \* device programs: binary i was compiled for shader key programs[i]
  nextDataId,         \* NDArray.nextDataId of the allocation layer
  disposed,           \* MathBackendWebGL.disposed
  gpgpuCreatedLocally, \* whether the constructor made the GPGPUContext itself
  deviceLog,          \* what has been freed on the device so far, in order
  delayedStorage,     \* constructor option
  asyncExtension,     \* ENV WEBGL_GET_BUFFER_SUB_DATA_ASYNC_EXTENSION_ENABLED
  timerVersion,       \* ENV WEBGL_DISJOINT_QUERY_TIMER_EXTENSION_VERSION
  canvas,             \* whether the backend has its auxiliary canvas (document is defined)
  pendingReads,       \* suspended read() calls, waiting at their await
  steps,              \* number of handler steps taken so far
  last,               \* the call that ran last: its outcome and what it did
  registered,         \* history: register(h) called and no disposeData(h) since
  everDisposed,       \* history: disposeData(h) has completed at least once
  ensured,            \* history: residency of h ensured, no write/read/dispose of h since
  written,            \* history: the values of the last write(h, values) since h was registered
  reduceCall,         \* the array a reduction is called with
  reduceReturn,       \* the reduction that has run on it: what it was, its passes, its result
  activeTimers,       \* MathBackendWebGL.activeTimers: the TimerNode array in use, or null
  programTimersStack, \* MathBackendWebGL.programTimersStack: a TimerNode array, or null
  timerNodes,         \* the TimerNode arrays made so far: array i holds the nodes timerNodes[i]
  queries,            \* the timer queries made so far: the time query q measured
  timeFrames,         \* the time(f) calls that are running f, outermost first
  timeResults,        \* history: what the time(f) calls that returned resolve to
  dispatched,         \* history: the programs run, with the time(f) calls running then
  registeredVariables, \* the variables made by variable(): name -> its array and whether it is trainable
  optimizer,          \* the SGDOptimizer of the test: the arrays it keeps
  costs               \* the cost arrays minimize has returned that are not disposed yet

vars == <<texData, freeTextures, allocatedTextures, texContents, binaryCache, programs,
          nextDataId, disposed, gpgpuCreatedLocally, deviceLog,
          delayedStorage, asyncExtension, timerVersion, canvas,
          pendingReads, steps, last, registered, everDisposed, ensured, written,
          reduceCall, reduceReturn,
          activeTimers, programTimersStack, timerNodes, queries, timeFrames,
          timeResults, dispatched,
          registeredVariables, optimizer, costs>>

\* ------------------------------------------------------------ typed arrays
\* A number is int, or int + 0.5 when half; NaN has nan set.
Num(n) == [nan |-> FALSE, int |-> n, half |-> FALSE]
Half(n) == [nan |-> FALSE, int |-> n, half |-> TRUE]
NaN == [nan |-> TRUE, int |-> 0, half |-> FALSE]

Float32Array(d) == [type |-> "Float32Array", data |-> d]
Int32Array(d) == [type |-> "Int32Array", data |-> d]

getNaN(dtype) ==
  IF dtype = "float32" THEN NaN
  ELSE IF dtype = "int32" THEN Num(NAN_INT32) ELSE Num(NAN_BOOL)

isValNaN(val, dtype) ==
  IF dtype = "float32" THEN val.nan
  ELSE IF dtype = "int32" THEN val = Num(NAN_INT32) ELSE val = Num(NAN_BOOL)

\* Math.round: the nearest integer, halves go up
MathRound(val) == Num(IF val.half THEN val.int + 1 ELSE val.int)

\* storing a number into an Int32Array / Uint8Array element: NaN becomes 0,
\* a Uint8Array wraps modulo 256 (every integer here is within 32 bits)
StoreElement(type, val) ==
  IF val.nan THEN Num(0)
  ELSE IF type = "Int32Array" THEN Num(val.int) ELSE Num(val.int % 256)

\* as float32ToTypedArray, without the NaN value of the dtype
float32ToTypedArray_dropsNaN(a, dtype) ==
  IF dtype = "float32" THEN a
  ELSE LET type == IF dtype = "int32" THEN "Int32Array" ELSE "Uint8Array" IN
       [type |-> type,
        data |-> [i \in DOMAIN a.data |-> StoreElement(type, MathRound(a.data[i]))]]

float32ToTypedArray(a, dtype) ==
  IF dtype = "float32" THEN a
  ELSE LET type == IF dtype = "int32" THEN "Int32Array" ELSE "Uint8Array" IN
       [type |-> type,
        data |-> [i \in DOMAIN a.data |->
                    StoreElement(type, IF a.data[i].nan THEN getNaN(dtype)
                                       ELSE MathRound(a.data[i]))]]

\* storing an integer into a Float32Array element: the nearest number with a
\* 24-bit significand, ties to the even one (integers of magnitude below 2^30)
Float32Exact == 2^24
RECURSIVE Float32Ulp(_, _)
Float32Ulp(m, ulp) == IF m \div ulp < Float32Exact THEN ulp ELSE Float32Ulp(m, 2 * ulp)
Fround(val) ==
  LET n == val.int IN
  IF val.nan \/ val.half \/ n = NAN_INT32 \/ (n >= -Float32Exact /\ n <= Float32Exact)
  THEN val
  ELSE LET m == IF n < 0 THEN -n ELSE n
           ulp == Float32Ulp(m, 1)
           q == m \div ulp
           r == m % ulp
           up == 2 * r > ulp \/ (2 * r = ulp /\ q % 2 = 1)
           res == (IF up THEN q + 1 ELSE q) * ulp
       IN Num(IF n < 0 THEN -res ELSE res)

typedArrayToFloat32(a, dtype) ==
  IF a.type = "Float32Array" THEN a
  ELSE Float32Array([i \in DOMAIN a.data |->
                       IF isValNaN(a.data[i], dtype) THEN NaN ELSE Fround(a.data[i])])

\* ------------------------------------------------------------- shapes, keys
RECURSIVE sizeFromShape(_)
sizeFromShape(shape) ==
  IF shape = <<>> THEN 1 ELSE Head(shape) * sizeFromShape(Tail(shape))

getTextureShapeFromLogicalShape(logShape) ==
  IF Len(logShape) <= 1 THEN <<sizeFromShape(logShape), 1>>
  ELSE IF Len(logShape) = 2 THEN logShape
  ELSE <<logShape[1], sizeFromShape(Tail(logShape))>>

TexShapes == {<<2, 1>>, <<1, 2>>, <<1, 1>>}
TextureTypes == {"FLOAT", "UNSIGNED_BYTE"}
TexKeys == TexShapes \X TextureTypes
getKeyFromTextureShape(shapeRowsCol, texType) == <<shapeRowsCol, texType>>

\* ------------------------------------------------------- the backend state
\* The handlers below are functions from backend state to backend state; a
\* thrown error is the field err, after which nothing more is done.
Err(name, id) == [name |-> name, id |-> id]
Ev(ev, id, tex, key) == [ev |-> ev, id |-> id, tex |-> tex, key |-> key, bin |-> 0]
EvBinary(ev, key, bin) == [ev |-> ev, id |-> 0, tex |-> 0, key |-> key, bin |-> bin]
NoKey == <<>>

NDArray(dataId, shape, dtype) == [dataId |-> dataId, shape |-> shape, dtype |-> dtype]
NullArray == NDArray(0, <<>>, "float32")

\* no TimerNode array
NullTimers == 0
\* no optimizer: none made yet, or disposed
NullOptimizer == [c |-> 0, one |-> 0]

Backend ==
  [texData |-> texData, freeTextures |-> freeTextures,
   allocatedTextures |-> allocatedTextures, texContents |-> texContents,
   binaryCache |-> binaryCache, programs |-> programs, nextDataId |-> nextDataId,
   err |-> NoError, events |-> <<>>, ret |-> NullValues, tex |-> NullTexture,
   bin |-> 0, out |-> NullArray, await |-> "none", disposed |-> disposed,
   activeTimers |-> activeTimers, programTimersStack |-> programTimersStack,
   timerNodes |-> timerNodes, queries |-> queries, query |-> 0, elapsed |-> 0,
   registeredVariables |-> registeredVariables, optimizer |-> optimizer,
   costs |-> costs, tape |-> <<>>, scope |-> <<>>, grads |-> <<>>, gradients |-> <<>>]

Throw(b, name, id) == [b EXCEPT !.err = Err(name, id)]
Emit(b, e) == [b EXCEPT !.events = Append(@, e)]
Then(b, F(_)) == IF b.err # NoError THEN b ELSE F(b)

NewTextureData(shape, dtype) ==
  [shape |-> shape, dtype |-> dtype, values |-> NullValues,
   texture |-> NullTexture, texShape |-> NullShape, texType |-> "FLOAT"]

\* as register, but an existing record is overwritten
register_overwrites(b, dataId, shape, dtype) ==
  LET b0 == Emit(b, Ev("register", dataId, NullTexture, NoKey)) IN
  IF dataId \in DOMAIN b0.texData
  THEN [b0 EXCEPT !.texData[dataId] = NewTextureData(shape, dtype)]
  ELSE [b0 EXCEPT !.texData = (dataId :> NewTextureData(shape, dtype)) @@ @]

\* as register, but the texture shape is computed at registration
register_eagerTexShape(b, dataId, shape, dtype) ==
  LET b0 == Emit(b, Ev("register", dataId, NullTexture, NoKey)) IN
  IF dataId \in DOMAIN b0.texData
  THEN Throw(b0, "AlreadyRegistered", dataId)
  ELSE [b0 EXCEPT !.texData =
          (dataId :> [NewTextureData(shape, dtype) EXCEPT
                        !.texShape = getTextureShapeFromLogicalShape(shape)]) @@ @]

register(b, dataId, shape, dtype) ==
  LET b0 == Emit(b, Ev("register", dataId, NullTexture, NoKey)) IN
  IF dataId \in DOMAIN b0.texData
  THEN Throw(b0, "AlreadyRegistered", dataId)
  ELSE [b0 EXCEPT !.texData = (dataId :> NewTextureData(shape, dtype)) @@ @]

throwIfNoData(b, dataId) ==
  IF dataId \notin DOMAIN b.texData THEN Throw(b, "NoData", dataId) ELSE b

\* ---------------------------------------------------------- texture manager
acquireTexture(b, shapeRC, texType) ==
  LET shapeKey == getKeyFromTextureShape(shapeRC, texType) IN
  IF Len(b.freeTextures[shapeKey]) > 0
  THEN LET t == Head(b.freeTextures[shapeKey]) IN
       Emit([b EXCEPT !.freeTextures[shapeKey] = Tail(@), !.tex = t],
            Ev("acquire", 0, t, shapeKey))
  ELSE LET t == Len(b.allocatedTextures) + 1 IN
       Emit(Emit([b EXCEPT !.allocatedTextures = Append(@, shapeKey),
                           !.texContents =
                             Append(@, [i \in 1..(shapeRC[1] * shapeRC[2]) |-> Num(0)]),
                           !.tex = t],
                 Ev("create", 0, t, shapeKey)),
            Ev("acquire", 0, t, shapeKey))

releaseTexture(b, texture, shape, texType) ==
  LET shapeKey == getKeyFromTextureShape(shape, texType) IN
  Emit([b EXCEPT !.freeTextures[shapeKey] = Append(@, texture)],
       Ev("release", 0, texture, shapeKey))

\* ------------------------------------------------------------ device context
uploadMatrixToTexture(b, texture, matrix) ==
  Emit([b EXCEPT !.texContents[texture] = matrix.data],
       Ev("upload", 0, texture, NoKey))

downloadMatrixFromTexture(b, texture) ==
  Emit([b EXCEPT !.ret = Float32Array(b.texContents[texture])],
       Ev("download", 0, texture, NoKey))

\* the non-blocking download: its result is what the texture holds when the
\* download is started
downloadMatrixFromTextureAsync(b, texture) ==
  Emit([b EXCEPT !.ret = Float32Array(b.texContents[texture])],
       Ev("downloadAsync", 0, texture, NoKey))

\* ------------------------------------------------------ residency handlers
\* as uploadToGPU, without the early return for an array already on the GPU
uploadToGPU_alwaysAcquires(b, dataId) ==
  Then(throwIfNoData(Emit(b, Ev("uploadToGPU", dataId, NullTexture, NoKey)), dataId),
       LAMBDA b0 :
    LET d == b0.texData[dataId]
        texShape == getTextureShapeFromLogicalShape(d.shape)
        b1 == [b0 EXCEPT !.texData[dataId].texShape = texShape]
        b2 == acquireTexture(b1, texShape, d.texType)
        newTexture == b2.tex
        b3 == [b2 EXCEPT !.texData[dataId].texture = newTexture]
    IN IF d.values # NullValues
       THEN [uploadMatrixToTexture(b3, newTexture,
                                   typedArrayToFloat32(d.values, d.dtype))
               EXCEPT !.texData[dataId].values = NullValues]
       ELSE b3)

uploadToGPU(b, dataId) ==
  Then(throwIfNoData(Emit(b, Ev("uploadToGPU", dataId, NullTexture, NoKey)), dataId),
       LAMBDA b0 :
    LET d == b0.texData[dataId] IN
    IF d.texture # NullTexture THEN b0
    ELSE
      LET texShape == getTextureShapeFromLogicalShape(d.shape)
          b1 == [b0 EXCEPT !.texData[dataId].texShape = texShape]
          b2 == acquireTexture(b1, texShape, d.texType)
          newTexture == b2.tex
          b3 == [b2 EXCEPT !.texData[dataId].texture = newTexture]
      IN IF d.values # NullValues
         THEN [uploadMatrixToTexture(b3, newTexture,
                                     typedArrayToFloat32(d.values, d.dtype))
                 EXCEPT !.texData[dataId].values = NullValues]
         ELSE b3)

\* as cacheOnCPU, but the record keeps the texture it has released
cacheOnCPU_keepsTexture(b, dataId, float32Values) ==
  IF dataId \notin DOMAIN b.texData THEN Throw(b, "TypeError", dataId)
  ELSE
    LET d == b.texData[dataId]
        b1 == IF delayedStorage /\ d.texture # NullTexture
              THEN releaseTexture(b, d.texture, d.texShape, d.texType)
              ELSE b
    IN IF float32Values # NullValues
       THEN [b1 EXCEPT !.texData[dataId].values =
                          float32ToTypedArray(float32Values, d.dtype)]
       ELSE b1

\* as cacheOnCPU, but the texture is released whatever delayedStorage says
cacheOnCPU_ignoresPolicy(b, dataId, float32Values) ==
  IF dataId \notin DOMAIN b.texData THEN Throw(b, "TypeError", dataId)
  ELSE
    LET d == b.texData[dataId]
        b1 == IF d.texture # NullTexture
              THEN [releaseTexture(b, d.texture, d.texShape, d.texType)
                      EXCEPT !.texData[dataId].texture = NullTexture,
                             !.texData[dataId].texShape = NullShape]
              ELSE b
    IN IF float32Values # NullValues
       THEN [b1 EXCEPT !.texData[dataId].values =
                          float32ToTypedArray(float32Values, d.dtype)]
       ELSE b1

cacheOnCPU(b, dataId, float32Values) ==
  IF dataId \notin DOMAIN b.texData THEN Throw(b, "TypeError", dataId)
  ELSE
    LET d == b.texData[dataId]
        dontKeepCopyOnGPU == delayedStorage
        b1 == IF dontKeepCopyOnGPU /\ d.texture # NullTexture
              THEN [releaseTexture(b, d.texture, d.texShape, d.texType)
                      EXCEPT !.texData[dataId].texture = NullTexture,
                             !.texData[dataId].texShape = NullShape]
              ELSE b
    IN IF float32Values # NullValues
       THEN [b1 EXCEPT !.texData[dataId].values =
                          float32ToTypedArray(float32Values, d.dtype)]
       ELSE b1

\* as write, but the old texture is dropped without being released
write_noRelease(b, dataId, values) ==
  IF values = NullValues THEN Throw(b, "NullValues", dataId)
  ELSE Then(throwIfNoData(b, dataId), LAMBDA b0 :
    LET d == b0.texData[dataId]
        b1 == IF d.texture # NullTexture
              THEN [b0 EXCEPT !.texData[dataId].texture = NullTexture,
                              !.texData[dataId].texShape = NullShape]
              ELSE b0
        b2 == [b1 EXCEPT !.texData[dataId].values = values]
    IN IF ~delayedStorage THEN uploadToGPU(b2, dataId) ELSE b2)

write(b, dataId, values) ==
  IF values = NullValues THEN Throw(b, "NullValues", dataId)
  ELSE Then(throwIfNoData(b, dataId), LAMBDA b0 :
    LET d == b0.texData[dataId]
        b1 == IF d.texture # NullTexture
              THEN [releaseTexture(b0, d.texture, d.texShape, d.texType)
                      EXCEPT !.texData[dataId].texture = NullTexture,
                             !.texData[dataId].texShape = NullShape]
              ELSE b0
        b2 == [b1 EXCEPT !.texData[dataId].values = values]
    IN IF ~delayedStorage THEN uploadToGPU(b2, dataId) ELSE b2)

readSync(b, dataId) ==
  Then(throwIfNoData(b, dataId), LAMBDA b0 :
    LET d == b0.texData[dataId] IN
    IF d.values # NullValues
    THEN [cacheOnCPU(b0, dataId, NullValues) EXCEPT !.ret = d.values]
    ELSE IF d.texShape = NullShape THEN Throw(b0, "TypeError", dataId)
    ELSE LET b1 == downloadMatrixFromTexture(b0, d.texture)
             b2 == cacheOnCPU(b1, dataId, b1.ret)
         IN [b2 EXCEPT !.ret = b2.texData[dataId].values])

\* as disposeData, but the texture is not released
disposeData_noRelease(b, dataId) ==
  LET b0 == Emit(b, Ev("disposeData", dataId, NullTexture, NoKey)) IN
  IF dataId \in DOMAIN b0.texData
  THEN Emit([b0 EXCEPT !.texData =
               [h \in DOMAIN b0.texData \ {dataId} |-> b0.texData[h]]],
            Ev("delete", dataId, NullTexture, NoKey))
  ELSE b0

\* as disposeData, but the record is not deleted
disposeData_keepsRecord(b, dataId) ==
  LET b0 == Emit(b, Ev("disposeData", dataId, NullTexture, NoKey)) IN
  IF dataId \in DOMAIN b0.texData
  THEN LET d == b0.texData[dataId] IN
       IF d.texture # NullTexture
       THEN [releaseTexture(b0, d.texture, d.texShape, d.texType)
               EXCEPT !.texData[dataId].texture = NullTexture]
       ELSE b0
  ELSE b0

disposeData(b, dataId) ==
  LET b0 == Emit(b, Ev("disposeData", dataId, NullTexture, NoKey)) IN
  IF dataId \in DOMAIN b0.texData
  THEN LET d == b0.texData[dataId]
           b1 == IF d.texture # NullTexture
                 THEN releaseTexture(b0, d.texture, d.texShape, d.texType)
                 ELSE b0
       IN Emit([b1 EXCEPT !.texData =
                  [h \in DOMAIN b1.texData \ {dataId} |-> b1.texData[h]]],
               Ev("delete", dataId, NullTexture, NoKey))
  ELSE b0

getTexture(b, dataId) ==
  Then(uploadToGPU(b, dataId), LAMBDA b0 :
    [b0 EXCEPT !.tex = b0.texData[dataId].texture])

getTextureData(b, dataId) == uploadToGPU(b, dataId)

\* ---------------------------------------------------------------- dispatch
makeOutputArray(b, shape, dtype) ==
  LET dataId == b.nextDataId IN
  [register([b EXCEPT !.nextDataId = @ + 1], dataId, shape, dtype)
     EXCEPT !.out = NDArray(dataId, shape, dtype)]

Program(name, outputShape, userCode) ==
  [name |-> name, outputShape |-> outputShape, userCode |-> userCode]

makeShaderKey(b, program, inputs, output) ==
  <<program.name,
    [i \in DOMAIN inputs |-> <<inputs[i].shape, b.texData[inputs[i].dataId].texShape>>],
    <<output.shape, b.texData[output.dataId].texShape>>,
    program.userCode>>

\* gpgpu_math.compileProgram: a new device program for the key
compileProgram(b, key) ==
  LET binary == Len(b.programs) + 1 IN
  Emit([b EXCEPT !.programs = Append(@, key), !.bin = binary],
       EvBinary("compile", key, binary))

\* as getAndSaveBinary, but the program is compiled on every call
getAndSaveBinary_alwaysCompiles(b, key) ==
  LET b1 == compileProgram(b, key)
      b2 == IF key \in DOMAIN b1.binaryCache
            THEN [b1 EXCEPT !.binaryCache[key] = b1.bin]
            ELSE [b1 EXCEPT !.binaryCache = (key :> b1.bin) @@ @]
  IN Emit([b2 EXCEPT !.bin = b2.binaryCache[key]],
          EvBinary("getBinary", key, b2.binaryCache[key]))

\* as getAndSaveBinary, but the cache keeps only the program used last
getAndSaveBinary_keepsLastOnly(b, key) ==
  LET b1 == IF key \notin DOMAIN b.binaryCache
            THEN LET c == compileProgram(b, key) IN
                 [c EXCEPT !.binaryCache = (key :> c.bin)]
            ELSE b
  IN Emit([b1 EXCEPT !.bin = b1.binaryCache[key]],
          EvBinary("getBinary", key, b1.binaryCache[key]))

getAndSaveBinary(b, key) ==
  LET b1 == IF key \notin DOMAIN b.binaryCache
            THEN LET c == compileProgram(b, key) IN
                 [c EXCEPT !.binaryCache = (key :> c.bin) @@ @]
            ELSE b
  IN Emit([b1 EXCEPT !.bin = b1.binaryCache[key]],
          EvBinary("getBinary", key, b1.binaryCache[key]))

\* ------------------------------------------------------ reduction programs
\* Reductions are followed on the values of the arrays: an array is its shape,
\* its dtype and its values in row-major order.
ArrayOf(shape, dtype, values) == [shape |-> shape, dtype |-> dtype, values |-> values]
\* element (b, i) of a 2D array, both counted from 0
At(x, b, i) == x.values[b * x.shape[2] + i + 1]
CeilDiv(a, c) == (a + c - 1) \div c

\* reduce_util.computeOptimalWindowSize: the window sizes it may return
WindowSizes(inSize) == {w \in 1..inSize : inSize > 1 => w >= 2}

ReduceInfo(windowSize, inSize, batchSize) ==
  [windowSize |-> windowSize, inSize |-> inSize, batchSize |-> batchSize]
Pass(reduceInfo, outputShape, firstPass, inputs, output) ==
  [reduceInfo |-> reduceInfo, outputShape |-> outputShape, firstPass |-> firstPass,
   inputs |-> inputs, output |-> output]

\* the window of output column o: input columns lo..hi
WindowLo(reduceInfo, o) == o * reduceInfo.windowSize
WindowHi(reduceInfo, o) ==
  LET end == (o + 1) * reduceInfo.windowSize IN
  (IF end < reduceInfo.inSize THEN end ELSE reduceInfo.inSize) - 1

RECURSIVE ReduceWindow(_, _, _, _, _)
ReduceWindow(x, b, lo, hi, reduceType) ==
  IF lo = hi THEN At(x, b, lo)
  ELSE LET rest == ReduceWindow(x, b, lo + 1, hi, reduceType)
           val == At(x, b, lo)
       IN IF reduceType = "sum" THEN val + rest
          ELSE IF reduceType = "min" THEN (IF val < rest THEN val ELSE rest)
          ELSE (IF val > rest THEN val ELSE rest)

\* ReduceProgram: output shape [batchSize, ceil(inSize / windowSize)], each
\* output element the reduction of its window
ReduceProgramOutputShape(reduceInfo) ==
  <<reduceInfo.batchSize, CeilDiv(reduceInfo.inSize, reduceInfo.windowSize)>>
ReduceProgramResult(reduceInfo, reduceType, x) ==
  LET outputShape == ReduceProgramOutputShape(reduceInfo)
      cols == outputShape[2]
  IN [k \in 1..(outputShape[1] * cols) |->
        LET b == (k - 1) \div cols
            o == (k - 1) % cols
        IN ReduceWindow(x, b, WindowLo(reduceInfo, o), WindowHi(reduceInfo, o), reduceType)]

\* ArgMinMaxProgram: the index into x of the best element of the window; the
\* candidates of a window are its columns on the first pass and the indices
\* in bestIndicesA afterwards; a candidate replaces the best so far only when it
\* is strictly better
RECURSIVE BestIndex(_, _, _, _, _)
BestIndex(x, b, candidates, best, reduceType) ==
  IF candidates = <<>> THEN best
  ELSE LET inIdx == Head(candidates)
           better == IF reduceType = "min" THEN At(x, b, inIdx) < At(x, b, best)
                     ELSE At(x, b, inIdx) > At(x, b, best)
       IN BestIndex(x, b, Tail(candidates), IF better THEN inIdx ELSE best, reduceType)

ArgMinMaxProgramResult(reduceInfo, reduceType, firstPass, x, bestIndicesA) ==
  LET outputShape == ReduceProgramOutputShape(reduceInfo)
      cols == outputShape[2]
  IN [k \in 1..(outputShape[1] * cols) |->
        LET b == (k - 1) \div cols
            o == (k - 1) % cols
            lo == WindowLo(reduceInfo, o)
            hi == WindowHi(reduceInfo, o)
            candidates == [j \in 1..(hi - lo + 1) |->
                             IF firstPass THEN lo + j - 1
                             ELSE At(bestIndicesA, b, lo + j - 1)]
        IN BestIndex(x, b, Tail(candidates), Head(candidates), reduceType)]

\* The same programs on the floats of a texture: a window with a NaN gives NaN.
AddFloat(x, y) ==
  [nan |-> FALSE, int |-> x.int + y.int + (IF x.half /\ y.half THEN 1 ELSE 0),
   half |-> x.half # y.half]
LessFloat(x, y) == x.int < y.int \/ (x.int = y.int /\ ~x.half /\ y.half)
RECURSIVE ReduceFloats(_, _)
ReduceFloats(w, reduceType) ==
  IF Len(w) = 1 THEN w[1]
  ELSE LET rest == ReduceFloats(Tail(w), reduceType)
           val == Head(w)
       IN IF reduceType = "sum" THEN AddFloat(val, rest)
          ELSE IF reduceType = "min" THEN (IF LessFloat(val, rest) THEN val ELSE rest)
          ELSE (IF LessFloat(rest, val) THEN val ELSE rest)
\* the first of the candidates, indices into row, that no other one beats
RECURSIVE BestFloatIndex(_, _, _, _)
BestFloatIndex(row, candidates, best, reduceType) ==
  IF candidates = <<>> THEN best
  ELSE LET inIdx == Head(candidates)
           better == IF reduceType = "min" THEN LessFloat(row[inIdx + 1], row[best + 1])
                     ELSE LessFloat(row[best + 1], row[inIdx + 1])
       IN BestFloatIndex(row, Tail(candidates), IF better THEN inIdx ELSE best, reduceType)

\* what a ReduceProgram leaves in its output texture
ReduceShaderResult(program, in) ==
  LET reduceInfo == ReduceInfo(program.userCode[2], program.userCode[3],
                               program.outputShape[1])
      cols == program.outputShape[2]
  IN [k \in 1..(program.outputShape[1] * cols) |->
        LET b == (k - 1) \div cols
            o == (k - 1) % cols
            lo == WindowLo(reduceInfo, o)
            hi == WindowHi(reduceInfo, o)
            w == [j \in 1..(hi - lo + 1) |-> in[1][b * reduceInfo.inSize + lo + j]]
        IN IF \E j \in DOMAIN w : w[j].nan THEN NaN
           ELSE ReduceFloats(w, program.userCode[1])]

\* what an ArgMinMaxProgram leaves in its output texture
ArgMinMaxShaderResult(program, in) ==
  LET reduceInfo == ReduceInfo(program.userCode[2], program.userCode[3],
                               program.outputShape[1])
      cols == program.outputShape[2]
      firstPass == Len(in) = 1
      xSize == Len(in[1]) \div reduceInfo.batchSize
  IN [k \in 1..(program.outputShape[1] * cols) |->
        LET b == (k - 1) \div cols
            o == (k - 1) % cols
            lo == WindowLo(reduceInfo, o)
            hi == WindowHi(reduceInfo, o)
            row == SubSeq(in[1], b * xSize + 1, (b + 1) * xSize)
            candidates == [j \in 1..(hi - lo + 1) |->
                             IF firstPass THEN lo + j - 1
                             ELSE in[2][b * reduceInfo.inSize + lo + j].int]
        IN IF \E j \in DOMAIN candidates : row[candidates[j] + 1].nan THEN NaN
           ELSE Num(BestFloatIndex(row, Tail(candidates), Head(candidates),
                                   program.userCode[1]))]

ReluElement(x) == IF x.nan \/ x.int >= 0 THEN x ELSE Num(0)
MaximumElement(x, y) ==
  IF x.nan \/ y.nan THEN NaN
  ELSE IF x.int > y.int \/ (x.int = y.int /\ (x.half \/ ~y.half)) THEN x ELSE y

\* Pool2DProgram and MaxPool2DBackpropProgram are not under src/.  They are
\* modelled for a pooling window that covers the input: one output element.
Pool2DProgram(convInfo, poolType, computePositions) ==
  Program("Pool2D", convInfo.outShape,
          <<poolType, IF computePositions THEN 1 ELSE 0, convInfo.filterHeight>>)
MaxPool2DBackpropProgram(convInfo) ==
  Program("MaxPool2DBackprop", convInfo.inShape, <<"maxPoolBackprop", 0, convInfo.filterHeight>>)

\* the position in the window of its greatest element, from 0
MaxPosition(window) ==
  LET greatest == {i \in DOMAIN window :
                     \A j \in DOMAIN window :
                       MaximumElement(window[i], window[j]) = window[i]}
  IN (CHOOSE i \in greatest : \A j \in greatest : i <= j) - 1

Pool2DShaderResult(program, in) ==
  LET position == MaxPosition(in[1]) IN
  <<IF program.userCode[2] = 1 THEN Num(position) ELSE in[1][position + 1]>>

\* dy goes to the position its maximum was taken from, 0 elsewhere
MaxPool2DBackpropShaderResult(program, in) ==
  [i \in 1..sizeFromShape(program.outputShape) |->
     IF i - 1 = in[2][1].int THEN in[1][1] ELSE Num(0)]

\* what the program's shader leaves in the output texture
ProgramResult(program, in) ==
  IF program.userCode[1] = "RELU" THEN [i \in DOMAIN in[1] |-> ReluElement(in[1][i])]
  ELSE IF program.userCode[1] = "MAX"
       THEN [i \in DOMAIN in[1] |-> MaximumElement(in[1][i], in[2][i])]
  ELSE IF program.name = "Reduce" THEN ReduceShaderResult(program, in)
  ELSE IF program.name = "ArgMinMax" THEN ArgMinMaxShaderResult(program, in)
  ELSE IF program.name = "Pool2D" THEN Pool2DShaderResult(program, in)
  ELSE IF program.name = "MaxPool2DBackprop" THEN MaxPool2DBackpropShaderResult(program, in)
  ELSE in[1]

runProgram(b, binary, program, inputs, output) ==
  LET in == [i \in DOMAIN inputs |-> b.texContents[b.texData[inputs[i].dataId].texture]]
      outTex == b.texData[output.dataId].texture
  IN Emit([b EXCEPT !.texContents[outTex] = ProgramResult(program, in)],
          [Ev("run", output.dataId, outTex, NoKey) EXCEPT !.bin = binary])

\* startTimer: a query of the device, or the wall clock read
startTimer(b) ==
  LET query == Len(b.queries) + 1 IN
  Emit([b EXCEPT !.queries = Append(@, b.elapsed), !.query = query],
       Ev("startTimer", query, NullTexture,
          IF timerVersion > 0 THEN <<"beginQuery">> ELSE <<"performance.now">>))

endTimer(b, query) ==
  Emit(b, Ev("endTimer", query, NullTexture,
             IF timerVersion > 0 THEN <<"endQuery">> ELSE <<"performance.now">>))

\* a TimerNode: the promise of getQueryTime for a query, or a TimerNode array
QueryNode(query) == [kind |-> "query", ref |-> query]
ArrayNode(timers) == [kind |-> "array", ref |-> timers]

\* this.activeTimers.push(this.getQueryTime(query))
pushQueryTime(b, query) ==
  [b EXCEPT !.timerNodes[b.activeTimers] = Append(@, QueryNode(query))]

RECURSIVE uploadInputs(_, _)
uploadInputs(b, inputs) ==
  IF inputs = <<>> THEN b
  ELSE Then(uploadToGPU(b, Head(inputs).dataId),
            LAMBDA b0 : uploadInputs(b0, Tail(inputs)))

compileAndRun(b, program, inputs, output) ==
  LET b1 == IF output = NullArray
            THEN makeOutputArray(b, program.outputShape, inputs[1].dtype)
            ELSE [b EXCEPT !.out = output]
  IN Then(b1, LAMBDA b2 :
       Then(uploadInputs(b2, inputs), LAMBDA b3 :
         Then(uploadToGPU(b3, b3.out.dataId), LAMBDA b4 :
           LET key == makeShaderKey(b4, program, inputs, b4.out)
               b5 == getAndSaveBinary(b4, key)
               shouldTimeProgram == b5.activeTimers # NullTimers
               b6 == IF shouldTimeProgram THEN startTimer(b5) ELSE b5
               b7 == runProgram(b6, b5.bin, program, inputs, b4.out)
           IN IF shouldTimeProgram
              THEN pushQueryTime(endTimer(b7, b6.query), b6.query)
              ELSE b7)))

copy2D(b, source, sourceSizeRowCol, dest, destSizeRowCol) ==
  compileAndRun(b, Program("Copy2D", destSizeRowCol,
                           <<"COPY", sourceSizeRowCol[2], destSizeRowCol[2]>>),
                <<source>>, dest)

\* as clone, but the result keeps the shape of the texture
clone_notReshaped(b, x) ==
  Then(throwIfNoData(b, x.dataId), LAMBDA b0 :
    Then(uploadToGPU(b0, x.dataId), LAMBDA b1 :
      LET texShape == b1.texData[x.dataId].texShape
          source == NDArray(x.dataId, texShape, x.dtype)
      IN Then(makeOutputArray(b1, texShape, x.dtype), LAMBDA b2 :
           LET output == b2.out IN
           copy2D(b2, source, texShape, output, texShape))))

clone(b, x) ==
  Then(throwIfNoData(b, x.dataId), LAMBDA b0 :
    Then(uploadToGPU(b0, x.dataId), LAMBDA b1 :
      LET texShape == b1.texData[x.dataId].texShape
          source == NDArray(x.dataId, texShape, x.dtype)
      IN Then(makeOutputArray(b1, texShape, x.dtype), LAMBDA b2 :
           LET output == b2.out IN
           Then(copy2D(b2, source, texShape, output, texShape), LAMBDA b3 :
             [b3 EXCEPT !.out = NDArray(output.dataId, x.shape, x.dtype)]))))

relu(b, x) == compileAndRun(b, Program("UnaryOp", x.shape, <<"RELU", 0, 0>>), <<x>>, NullArray)

maximum(b, a, c) ==
  compileAndRun(b, Program("BinaryOp", a.shape, <<"MAX", 0, 0>>), <<a, c>>, NullArray)

\* -------------------------------------------------------------------- timing
\* the locals of a call of time(f)
FrameOf(b) ==
  [oldActiveTimers |-> b.activeTimers, newActiveTimers |-> Len(b.timerNodes) + 1,
   outerMostTime |-> b.programTimersStack = NullTimers]

\* time(f) up to its call of f
timeEnter(b) ==
  LET newActiveTimers == FrameOf(b).newActiveTimers
      outerMostTime == FrameOf(b).outerMostTime
      b1 == [b EXCEPT !.timerNodes = Append(@, <<>>)]
      b2 == IF outerMostTime
            THEN [b1 EXCEPT !.programTimersStack = newActiveTimers]
            ELSE [b1 EXCEPT !.timerNodes[b.activeTimers] =
                              Append(@, ArrayNode(newActiveTimers))]
  IN [b2 EXCEPT !.activeTimers = newActiveTimers]

\* util.flatten of a TimerNode array: the queries in it and in the arrays in it
RECURSIVE flatten(_, _)
flatten(nodes, timers) ==
  LET RECURSIVE Over(_)
      Over(arr) ==
        IF arr = <<>> THEN <<>>
        ELSE (IF Head(arr).kind = "query" THEN <<Head(arr).ref>>
              ELSE flatten(nodes, Head(arr).ref)) \o Over(Tail(arr))
  IN Over(nodes[timers])

RECURSIVE SumTimes(_, _)
SumTimes(times, flattened) ==
  IF flattened = <<>> THEN 0
  ELSE times[Head(flattened)] + SumTimes(times, Tail(flattened))

\* time(f) after f has returned; the promise it returns resolves to the sum,
\* left in the field query
timeReturn(b, frame) ==
  LET flattenedActiveTimers == flatten(b.timerNodes, b.activeTimers)
      b1 == [b EXCEPT !.activeTimers = frame.oldActiveTimers]
      b2 == IF frame.outerMostTime THEN [b1 EXCEPT !.programTimersStack = NullTimers]
            ELSE b1
  IN [b2 EXCEPT !.query = SumTimes(b.queries, flattenedActiveTimers)]

\* ---------------------------------------------------------- binary operations
\* types.upcastType: the wider of two dtypes, bool < int32 < float32
upcastType(typeA, typeB) ==
  IF typeA = "float32" \/ typeB = "float32" THEN "float32"
  ELSE IF typeA = "int32" \/ typeB = "int32" THEN "int32"
  ELSE "bool"

\* BinaryOpProgram of two arrays of one shape; its userCode is the operation
BinaryOpProgram(op, aShape, bShape) == Program("BinaryOp", aShape, <<op, 0, 0>>)

equal(b, a, c) ==
  LET program == BinaryOpProgram("EQUAL", a.shape, c.shape) IN
  Then(makeOutputArray(b, program.outputShape, "bool"), LAMBDA b0 :
    compileAndRun(b0, program, <<a, c>>, b0.out))

notEqual(b, a, c) ==
  LET program == BinaryOpProgram("NOT_EQUAL", a.shape, c.shape) IN
  Then(makeOutputArray(b, program.outputShape, "bool"), LAMBDA b0 :
    compileAndRun(b0, program, <<a, c>>, b0.out))

less(b, a, c) ==
  LET program == BinaryOpProgram("LESS", a.shape, c.shape) IN
  Then(makeOutputArray(b, program.outputShape, "bool"), LAMBDA b0 :
    compileAndRun(b0, program, <<a, c>>, b0.out))

lessEqual(b, a, c) ==
  LET program == BinaryOpProgram("LESS_EQUAL", a.shape, c.shape) IN
  Then(makeOutputArray(b, program.outputShape, "bool"), LAMBDA b0 :
    compileAndRun(b0, program, <<a, c>>, b0.out))

greater(b, a, c) ==
  LET program == BinaryOpProgram("GREATER", a.shape, c.shape) IN
  Then(makeOutputArray(b, program.outputShape, "bool"), LAMBDA b0 :
    compileAndRun(b0, program, <<a, c>>, b0.out))

greaterEqual(b, a, c) ==
  LET program == BinaryOpProgram("GREATER_EQUAL", a.shape, c.shape) IN
  Then(makeOutputArray(b, program.outputShape, "bool"), LAMBDA b0 :
    compileAndRun(b0, program, <<a, c>>, b0.out))

logicalAnd(b, a, c) ==
  LET program == BinaryOpProgram("LOGICAL_AND", a.shape, c.shape) IN
  Then(makeOutputArray(b, program.outputShape, "bool"), LAMBDA b0 :
    compileAndRun(b0, program, <<a, c>>, b0.out))

logicalOr(b, a, c) ==
  LET program == BinaryOpProgram("LOGICAL_OR", a.shape, c.shape) IN
  Then(makeOutputArray(b, program.outputShape, "bool"), LAMBDA b0 :
    compileAndRun(b0, program, <<a, c>>, b0.out))

minimum(b, a, c) ==
  compileAndRun(b, BinaryOpProgram("MIN", a.shape, c.shape), <<a, c>>, NullArray)

divide(b, a, c) ==
  LET program == BinaryOpProgram("DIV", a.shape, c.shape) IN
  Then(makeOutputArray(b, program.outputShape, "float32"), LAMBDA b0 :
    compileAndRun(b0, program, <<a, c>>, b0.out))

multiply(b, a, c) ==
  LET program == BinaryOpProgram("MUL", a.shape, c.shape) IN
  Then(makeOutputArray(b, program.outputShape, upcastType(a.dtype, c.dtype)), LAMBDA b0 :
    compileAndRun(b0, program, <<a, c>>, b0.out))

add(b, a, c) ==
  LET program == BinaryOpProgram("ADD", a.shape, c.shape) IN
  Then(makeOutputArray(b, program.outputShape, upcastType(a.dtype, c.dtype)), LAMBDA b0 :
    compileAndRun(b0, program, <<a, c>>, b0.out))

subtract(b, a, c) ==
  LET program == BinaryOpProgram("SUB", a.shape, c.shape) IN
  Then(makeOutputArray(b, program.outputShape, upcastType(a.dtype, c.dtype)), LAMBDA b0 :
    compileAndRun(b0, program, <<a, c>>, b0.out))

pow(b, a, c) ==
  LET program == BinaryOpProgram("POW", a.shape, c.shape) IN
  Then(makeOutputArray(b, program.outputShape, upcastType(a.dtype, c.dtype)), LAMBDA b0 :
    compileAndRun(b0, program, <<a, c>>, b0.out))

NullPixels == [kind |-> "null", height |-> 0, width |-> 0, data |-> <<>>]

\* as fromPixels, but the pixel array is made a byte texture only after its
\* texture has been acquired
fromPixels_byteTypeLate(b, pixels, numChannels) ==
  IF pixels = NullPixels THEN Throw(b, "NullPixels", 0)
  ELSE
    LET texShape == <<pixels.height, pixels.width>>
        outShape == <<pixels.height, pixels.width, numChannels>>
    IN IF pixels.kind = "video" /\ ~canvas THEN Throw(b, "NoCanvas", 0)
       ELSE
         Then(makeOutputArray(b, texShape, "int32"), LAMBDA b0 :
           LET tempPixelArray == b0.out IN
              Then(getTexture(b0, tempPixelArray.dataId), LAMBDA b2 :
                LET b3 == [b2 EXCEPT !.texContents[b2.tex] = pixels.data,
                                     !.texData[tempPixelArray.dataId].texType = "UNSIGNED_BYTE"] IN
                Then(compileAndRun(b3, Program("FromPixels", outShape, <<"FROM_PIXELS", numChannels, 0>>),
                                   <<tempPixelArray>>, NullArray),
                     LAMBDA b4 :
                       [disposeData(b4, tempPixelArray.dataId) EXCEPT !.out = b4.out])))

\* as fromPixels, but the canvas is looked for after the temporary pixel
\* array is made
fromPixels_canvasCheckedLate(b, pixels, numChannels) ==
  IF pixels = NullPixels THEN Throw(b, "NullPixels", 0)
  ELSE
    LET texShape == <<pixels.height, pixels.width>>
        outShape == <<pixels.height, pixels.width, numChannels>>
    IN Then(makeOutputArray(b, texShape, "int32"), LAMBDA b0 :
         IF pixels.kind = "video" /\ ~canvas THEN Throw(b0, "NoCanvas", 0)
         ELSE
           LET tempPixelArray == b0.out
               b1 == [b0 EXCEPT !.texData[tempPixelArray.dataId].texType = "UNSIGNED_BYTE"]
           IN Then(getTexture(b1, tempPixelArray.dataId), LAMBDA b2 :
                LET b3 == [b2 EXCEPT !.texContents[b2.tex] = pixels.data] IN
                Then(compileAndRun(b3, Program("FromPixels", outShape, <<"FROM_PIXELS", numChannels, 0>>),
                                   <<tempPixelArray>>, NullArray),
                     LAMBDA b4 :
                       [disposeData(b4, tempPixelArray.dataId) EXCEPT !.out = b4.out])))

fromPixels(b, pixels, numChannels) ==
  IF pixels = NullPixels THEN Throw(b, "NullPixels", 0)
  ELSE
    LET texShape == <<pixels.height, pixels.width>>
        outShape == <<pixels.height, pixels.width, numChannels>>
    IN IF pixels.kind = "video" /\ ~canvas THEN Throw(b, "NoCanvas", 0)
       ELSE
         Then(makeOutputArray(b, texShape, "int32"), LAMBDA b0 :
           LET tempPixelArray == b0.out
               b1 == [b0 EXCEPT !.texData[tempPixelArray.dataId].texType = "UNSIGNED_BYTE"]
           IN Then(getTexture(b1, tempPixelArray.dataId), LAMBDA b2 :
                LET b3 == [b2 EXCEPT !.texContents[b2.tex] = pixels.data] IN
                Then(compileAndRun(b3, Program("FromPixels", outShape, <<"FROM_PIXELS", numChannels, 0>>),
                                   <<tempPixelArray>>, NullArray),
                     LAMBDA b4 :
                       [disposeData(b4, tempPixelArray.dataId) EXCEPT !.out = b4.out])))

maxPoolBackprop(b, dy, x, convInfo) ==
  LET getPositions == TRUE
      maxPoolPositionsProgram == Pool2DProgram(convInfo, "max", getPositions)
  IN Then(compileAndRun(b, maxPoolPositionsProgram, <<x>>, NullArray), LAMBDA b0 :
       LET maxPoolPositions == b0.out
           maxPoolBackPropProgram == MaxPool2DBackpropProgram(convInfo)
       IN Then(makeOutputArray(b0, maxPoolBackPropProgram.outputShape, x.dtype),
               LAMBDA b1 :
            LET output == b1.out IN
            Then(compileAndRun(b1, maxPoolBackPropProgram, <<dy, maxPoolPositions>>,
                               output),
                 LAMBDA b2 :
                   [disposeData(b2, maxPoolPositions.dataId) EXCEPT !.out = b2.out])))

\* --------------------------------------------------------------- reductions
\* as reduce, but the output of the first pass is returned as it is
reduce_onePass(x, reduceType, dtype, passes) ==
  LET batchSize == x.shape[1]
      inSize == x.shape[2]
  IN {LET reduceInfo == ReduceInfo(windowSize, inSize, batchSize)
          outputShape == ReduceProgramOutputShape(reduceInfo)
          output == ArrayOf(outputShape, dtype,
                            ReduceProgramResult(reduceInfo, reduceType, x))
      IN [out |-> output,
          passes |-> Append(passes, Pass(reduceInfo, outputShape, TRUE, <<x>>, output))]
      : windowSize \in WindowSizes(inSize)}

\* The results of reduce: one for every choice of window sizes, each with the
\* passes it took.
RECURSIVE reduce(_, _, _, _)
reduce(x, reduceType, dtype, passes) ==
  LET batchSize == x.shape[1]
      inSize == x.shape[2]
  IN UNION {
       LET reduceInfo == ReduceInfo(windowSize, inSize, batchSize)
           outputShape == ReduceProgramOutputShape(reduceInfo)
           output == ArrayOf(outputShape, dtype,
                             ReduceProgramResult(reduceInfo, reduceType, x))
           log == Append(passes, Pass(reduceInfo, outputShape, TRUE, <<x>>, output))
       IN IF output.shape[2] = 1 THEN {[out |-> output, passes |-> log]}
          ELSE reduce(output, reduceType, dtype, log)
       : windowSize \in WindowSizes(inSize)}

NoBestIndices == ArrayOf(<<>>, "int32", <<>>)

\* as argReduce, but a later pass starts afresh on the best indices of the pass before
RECURSIVE argReduce_reducesIndices(_, _, _, _)
argReduce_reducesIndices(x, reduceType, bestIndicesA, passes) ==
  LET batchSize == IF bestIndicesA # NoBestIndices THEN bestIndicesA.shape[1] ELSE x.shape[1]
      inSize == IF bestIndicesA # NoBestIndices THEN bestIndicesA.shape[2] ELSE x.shape[2]
  IN UNION {
       LET reduceInfo == ReduceInfo(windowSize, inSize, batchSize)
           firstPass == bestIndicesA = NoBestIndices
           outputShape == ReduceProgramOutputShape(reduceInfo)
           output == ArrayOf(outputShape, "int32",
                             ArgMinMaxProgramResult(reduceInfo, reduceType, firstPass,
                                                    x, bestIndicesA))
           inputs == IF firstPass THEN <<x>> ELSE <<x, bestIndicesA>>
           log == Append(passes, Pass(reduceInfo, outputShape, firstPass, inputs, output))
       IN IF output.shape[2] = 1 THEN {[out |-> output, passes |-> log]}
          ELSE argReduce_reducesIndices(output, reduceType, NoBestIndices, log)
       : windowSize \in WindowSizes(inSize)}

RECURSIVE argReduce(_, _, _, _)
argReduce(x, reduceType, bestIndicesA, passes) ==
  LET batchSize == IF bestIndicesA # NoBestIndices THEN bestIndicesA.shape[1] ELSE x.shape[1]
      inSize == IF bestIndicesA # NoBestIndices THEN bestIndicesA.shape[2] ELSE x.shape[2]
  IN UNION {
       LET reduceInfo == ReduceInfo(windowSize, inSize, batchSize)
           firstPass == bestIndicesA = NoBestIndices
           outputShape == ReduceProgramOutputShape(reduceInfo)
           output == ArrayOf(outputShape, "int32",
                             ArgMinMaxProgramResult(reduceInfo, reduceType, firstPass,
                                                    x, bestIndicesA))
           inputs == IF firstPass THEN <<x>> ELSE <<x, bestIndicesA>>
           log == Append(passes, Pass(reduceInfo, outputShape, firstPass, inputs, output))
       IN IF output.shape[2] = 1 THEN {[out |-> output, passes |-> log]}
          ELSE argReduce(x, reduceType, output, log)
       : windowSize \in WindowSizes(inSize)}

\* axis_util: the axes must be the last dimensions, in order
AxesAreInnerMostDims(axes, rank) ==
  \A i \in DOMAIN axes : axes[i] = rank - Len(axes) + i - 1
\* the shape without the reduced axes, and the shape of the reduced axes
computeOutAndReduceShapes(shape, axes) ==
  <<SubSeq(shape, 1, Len(shape) - Len(axes)),
    SubSeq(shape, Len(shape) - Len(axes) + 1, Len(shape))>>
as2D(x, inSize) == [x EXCEPT !.shape = <<sizeFromShape(x.shape) \div inSize, inSize>>]
reshape(x, shape) == [x EXCEPT !.shape = shape]

\* types.sumOutType
sumOutType(dtype) == IF dtype = "bool" THEN "int32" ELSE dtype

ReductionError(name) == {[out |-> NoBestIndices, passes |-> <<>>, err |-> name]}
Returned(results, outShape) ==
  {[out |-> reshape(r.out, outShape), passes |-> r.passes, err |-> "none"] : r \in results}

sum(x, axes) ==
  IF ~AxesAreInnerMostDims(axes, Len(x.shape)) THEN ReductionError("AxesNotInnerMost")
  ELSE LET shapes == computeOutAndReduceShapes(x.shape, axes)
           inSize == sizeFromShape(shapes[2])
           a2D == as2D(x, inSize)
           outputDType == sumOutType(x.dtype)
       IN Returned(reduce(a2D, "sum", outputDType, <<>>), shapes[1])

argMin(x, axes) ==
  IF ~AxesAreInnerMostDims(axes, Len(x.shape)) THEN ReductionError("AxesNotInnerMost")
  ELSE LET shapes == computeOutAndReduceShapes(x.shape, axes)
           inSize == sizeFromShape(shapes[2])
           a2D == as2D(x, inSize)
       IN Returned(argReduce(a2D, "min", NoBestIndices, <<>>), shapes[1])

argMax(x, axes) ==
  IF ~AxesAreInnerMostDims(axes, Len(x.shape)) THEN ReductionError("AxesNotInnerMost")
  ELSE LET shapes == computeOutAndReduceShapes(x.shape, axes)
           inSize == sizeFromShape(shapes[2])
           a2D == as2D(x, inSize)
       IN Returned(argReduce(a2D, "max", NoBestIndices, <<>>), shapes[1])

\* ------------------------------------------------ reductions on the backend
\* What the reductions do to the backend: every pass makes its output array and
\* dispatches its program on the device. There is one outcome for every choice
\* of window sizes.
RECURSIVE reduceDispatch(_, _, _, _)
reduceDispatch(b, x, reduceType, dtype) ==
  LET batchSize == x.shape[1]
      inSize == x.shape[2]
  IN UNION {
       LET reduceInfo == ReduceInfo(windowSize, inSize, batchSize)
           outputShape == ReduceProgramOutputShape(reduceInfo)
           program == Program("Reduce", outputShape, <<reduceType, windowSize, inSize>>)
           b1 == Then(makeOutputArray(b, outputShape, dtype), LAMBDA b0 :
                   compileAndRun(b0, program, <<x>>, b0.out))
       IN IF b1.err # NoError \/ b1.out.shape[2] = 1 THEN {b1}
          ELSE reduceDispatch(b1, b1.out, reduceType, dtype)
       : windowSize \in WindowSizes(inSize)}

RECURSIVE argReduceDispatch(_, _, _, _)
argReduceDispatch(b, x, reduceType, bestIndicesA) ==
  LET batchSize == IF bestIndicesA # NullArray THEN bestIndicesA.shape[1] ELSE x.shape[1]
      inSize == IF bestIndicesA # NullArray THEN bestIndicesA.shape[2] ELSE x.shape[2]
  IN UNION {
       LET reduceInfo == ReduceInfo(windowSize, inSize, batchSize)
           outputShape == ReduceProgramOutputShape(reduceInfo)
           program == Program("ArgMinMax", outputShape, <<reduceType, windowSize, inSize>>)
           inputs == IF bestIndicesA # NullArray THEN <<x, bestIndicesA>> ELSE <<x>>
           b1 == Then(makeOutputArray(b, outputShape, "int32"), LAMBDA b0 :
                   compileAndRun(b0, program, inputs, b0.out))
       IN IF b1.err # NoError \/ b1.out.shape[2] = 1 THEN {b1}
          ELSE argReduceDispatch(b1, x, reduceType, b1.out)
       : windowSize \in WindowSizes(inSize)}

\* the result of a reduction, reshaped to the shape without the reduced axes
Reshaped(results, outShape) ==
  {IF r.err # NoError THEN r ELSE [r EXCEPT !.out = reshape(r.out, outShape)]
     : r \in results}

sumDispatch(b, x, axes) ==
  IF ~AxesAreInnerMostDims(axes, Len(x.shape)) THEN {Throw(b, "AxesNotInnerMost", x.dataId)}
  ELSE LET shapes == computeOutAndReduceShapes(x.shape, axes)
           inSize == sizeFromShape(shapes[2])
           a2D == as2D(x, inSize)
           outputDType == sumOutType(x.dtype)
       IN Reshaped(reduceDispatch(b, a2D, "sum", outputDType), shapes[1])

argMinDispatch(b, x, axes) ==
  IF ~AxesAreInnerMostDims(axes, Len(x.shape)) THEN {Throw(b, "AxesNotInnerMost", x.dataId)}
  ELSE LET shapes == computeOutAndReduceShapes(x.shape, axes)
           inSize == sizeFromShape(shapes[2])
           a2D == as2D(x, inSize)
       IN Reshaped(argReduceDispatch(b, a2D, "min", NullArray), shapes[1])

argMaxDispatch(b, x, axes) ==
  IF ~AxesAreInnerMostDims(axes, Len(x.shape)) THEN {Throw(b, "AxesNotInnerMost", x.dataId)}
  ELSE LET shapes == computeOutAndReduceShapes(x.shape, axes)
           inSize == sizeFromShape(shapes[2])
           a2D == as2D(x, inSize)
       IN Reshaped(argReduceDispatch(b, a2D, "max", NullArray), shapes[1])

\* as min, but the axes are not checked
min_axesUnchecked(b, x, axes) ==
  LET shapes == computeOutAndReduceShapes(x.shape, axes)
      inSize == sizeFromShape(shapes[2])
      a2D == as2D(x, inSize)
  IN Reshaped(reduceDispatch(b, a2D, "min", a2D.dtype), shapes[1])

min(b, x, axes) ==
  IF ~AxesAreInnerMostDims(axes, Len(x.shape)) THEN {Throw(b, "AxesNotInnerMost", x.dataId)}
  ELSE LET shapes == computeOutAndReduceShapes(x.shape, axes)
           inSize == sizeFromShape(shapes[2])
           a2D == as2D(x, inSize)
       IN Reshaped(reduceDispatch(b, a2D, "min", a2D.dtype), shapes[1])

max(b, x, axes) ==
  IF ~AxesAreInnerMostDims(axes, Len(x.shape)) THEN {Throw(b, "AxesNotInnerMost", x.dataId)}
  ELSE LET shapes == computeOutAndReduceShapes(x.shape, axes)
           inSize == sizeFromShape(shapes[2])
           a2D == as2D(x, inSize)
       IN Reshaped(reduceDispatch(b, a2D, "max", a2D.dtype), shapes[1])

\* ----------------------------------------------------------------- teardown
RECURSIVE deleteTextures(_, _)
deleteTextures(b, t) ==
  IF t > Len(b.allocatedTextures) THEN b
  ELSE deleteTextures(Emit(b, Ev("deleteMatrixTexture", 0, t, b.allocatedTextures[t])), t + 1)

\* TextureManager.dispose: every block the pool has created is freed, free
\* or not
disposeTextureManager(b) ==
  deleteTextures(Emit(b, Ev("disposeTextureManager", 0, NullTexture, NoKey)), 1)

RECURSIVE deletePrograms(_, _)
deletePrograms(b, binaries) ==
  IF binaries = {} THEN b
  ELSE LET binary == CHOOSE x \in binaries : \A y \in binaries : x <= y IN
       deletePrograms(Emit(b, EvBinary("deleteProgram", b.programs[binary], binary)),
                      binaries \ {binary})

\* as dispose, but the disposed flag is never set
dispose_neverSetsFlag(b) ==
  IF b.disposed THEN b
  ELSE LET b1 == deletePrograms(b, {b.binaryCache[key] : key \in DOMAIN b.binaryCache})
           b2 == disposeTextureManager(b1)
       IN IF gpgpuCreatedLocally
          THEN Emit(b2, Ev("disposeGPGPU", 0, NullTexture, NoKey))
          ELSE b2

dispose(b) ==
  IF b.disposed THEN b
  ELSE LET b1 == deletePrograms(b, {b.binaryCache[key] : key \in DOMAIN b.binaryCache})
           b2 == disposeTextureManager(b1)
           b3 == IF gpgpuCreatedLocally
                 THEN Emit(b2, Ev("disposeGPGPU", 0, NullTexture, NoKey))
                 ELSE b2
       IN [b3 EXCEPT !.disposed = TRUE]

\* ------------------------------------------------------ asynchronous read
\* read() up to its first await: await = "async" while the non-blocking
\* download is outstanding, "query" while the runQuery barrier is.
\* as read, but without the runQuery barrier before the blocking download
read_skipsBarrier(b, dataId) ==
  Then(throwIfNoData(b, dataId), LAMBDA b0 :
    LET d == b0.texData[dataId] IN
    IF d.values # NullValues
    THEN [cacheOnCPU(b0, dataId, NullValues) EXCEPT !.ret = d.values]
    ELSE IF asyncExtension
         THEN IF d.texShape = NullShape THEN Throw(b0, "TypeError", dataId)
              ELSE [downloadMatrixFromTextureAsync(b0, d.texture) EXCEPT !.await = "async"]
         ELSE readSync(b0, dataId))

read(b, dataId) ==
  Then(throwIfNoData(b, dataId), LAMBDA b0 :
    LET d == b0.texData[dataId] IN
    IF d.values # NullValues
    THEN [cacheOnCPU(b0, dataId, NullValues) EXCEPT !.ret = d.values]
    ELSE IF asyncExtension
         THEN IF d.texShape = NullShape THEN Throw(b0, "TypeError", dataId)
              ELSE [downloadMatrixFromTextureAsync(b0, d.texture) EXCEPT !.await = "async"]
         ELSE IF timerVersion = 0 THEN readSync(b0, dataId)
              ELSE Emit([b0 EXCEPT !.await = "query"],
                        Ev("runQuery", dataId, NullTexture, NoKey)))

\* read() from its await to its return
readResume(b, p) ==
  IF p.path = "async"
  THEN Then(cacheOnCPU(b, p.dataId, p.float32Values), LAMBDA b0 :
         [b0 EXCEPT !.ret = b0.texData[p.dataId].values])
  ELSE readSync(b, p.dataId)

\* ----------------------------------------------------------------- training
\* variable(), SGDOptimizer and Optimizer.minimize are not under src/: they are
\* modelled as optimizer_test.ts uses them.  Arrays are made and disposed
\* through register, write and disposeData; their values stay on the host.
NullVarList == [given |-> FALSE, names |-> {}]
VarList(names) == [given |-> TRUE, names |-> names]
VariableOrder == <<"x", "bias", "strayVariable">>
VariableNames == {VariableOrder[i] : i \in DOMAIN VariableOrder}

\* Scalar.new(n): an array with one value; the scope that is open tracks it
Scalar(b, n) ==
  Then(makeOutputArray(b, <<>>, "float32"), LAMBDA b0 :
    Then(write(b0, b0.out.dataId, Float32Array(<<Num(n)>>)), LAMBDA b1 :
      [b1 EXCEPT !.scope = Append(@, b0.out.dataId), !.out = b0.out]))

scalarValue(b, dataId) == b.texData[dataId].values.data[1].int

RECURSIVE disposeAll(_, _)
disposeAll(b, dataIds) ==
  IF dataIds = <<>> THEN b
  ELSE disposeAll(disposeData(b, Head(dataIds)), Tail(dataIds))

\* variable(Scalar.new(n), trainable), registered under name
variable(b, name, n, trainable) ==
  Then(Scalar(b, n), LAMBDA b0 :
    [b0 EXCEPT !.registeredVariables =
                 (name :> [dataId |-> b0.out.dataId, trainable |-> trainable]) @@ @,
               !.scope = <<>>])

\* new SGDOptimizer(learningRate): it keeps the scalars -learningRate and 1
SGDOptimizer(b, learningRate) ==
  Then(Scalar(b, -learningRate), LAMBDA b0 :
    Then(Scalar(b0, 1), LAMBDA b1 :
      [b1 EXCEPT !.optimizer = [c |-> b0.out.dataId, one |-> b1.out.dataId],
                 !.scope = <<>>]))

TapeNode(op, inputs, output) == [op |-> op, inputs |-> inputs, output |-> output]

square(b, a) ==
  Then(Scalar(b, scalarValue(b, a) * scalarValue(b, a)), LAMBDA b0 :
    [b0 EXCEPT !.tape = Append(@, TapeNode("square", <<a>>, b0.out.dataId))])

addStrict(b, a1, a2) ==
  Then(Scalar(b, scalarValue(b, a1) + scalarValue(b, a2)), LAMBDA b0 :
    [b0 EXCEPT !.tape = Append(@, TapeNode("add", <<a1, a2>>, b0.out.dataId))])

\* the cost function of the tests: () => math.addStrict(math.square(x), bias)
f(b) ==
  Then(square(b, b.registeredVariables["x"].dataId), LAMBDA b0 :
    addStrict(b0, b0.out.dataId, b0.registeredVariables["bias"].dataId))

\* n is added to the gradient of the array dataId
accumulate(b, dataId, n) ==
  IF dataId \in DOMAIN b.grads
  THEN Then(Scalar(b, scalarValue(b, b.grads[dataId]) + n), LAMBDA b0 :
         [b0 EXCEPT !.grads[dataId] = b0.out.dataId])
  ELSE Then(Scalar(b, n), LAMBDA b0 :
         [b0 EXCEPT !.grads = (dataId :> b0.out.dataId) @@ @])

\* the gradients of the inputs of the tape nodes i, i - 1, ..., 1
RECURSIVE backpropagate(_, _)
backpropagate(b, i) ==
  IF i = 0 THEN b
  ELSE LET node == b.tape[i] IN
       IF node.output \notin DOMAIN b.grads THEN backpropagate(b, i - 1)
       ELSE LET dy == scalarValue(b, b.grads[node.output])
                b0 == IF node.op = "square"
                      THEN accumulate(b, node.inputs[1],
                                      dy * 2 * scalarValue(b, node.inputs[1]))
                      ELSE Then(accumulate(b, node.inputs[1], dy), LAMBDA b1 :
                             accumulate(b1, node.inputs[2], dy))
            IN Then(b0, LAMBDA b2 : backpropagate(b2, i - 1))

GradientsOf(b, names) == [name \in names |-> b.grads[b.registeredVariables[name].dataId]]
RangeOf(g) == {g[k] : k \in DOMAIN g}

\* as variableGradients, but variables that are not trainable are kept
variableGradients_ignoresTrainable(b, varList) ==
  Then(f([b EXCEPT !.scope = <<>>, !.tape = <<>>, !.grads = <<>>]), LAMBDA b0 :
    LET value == b0.out IN
    Then(accumulate(b0, value.dataId, 1), LAMBDA b1 :
      Then(backpropagate(b1, Len(b1.tape)), LAMBDA b2 :
        LET names == {name \in DOMAIN b2.registeredVariables :
                        /\ ~varList.given \/ name \in varList.names
                        /\ b2.registeredVariables[name].dataId \in DOMAIN b2.grads}
            gradients == GradientsOf(b2, names)
            kept == {value.dataId} \cup RangeOf(gradients)
        IN [disposeAll(b2, SelectSeq(b2.scope, LAMBDA id : id \notin kept))
              EXCEPT !.gradients = gradients, !.out = value])))

\* f is run and its gradients are taken for the trainable variables (those of
\* varList when one is given) that f uses; the arrays made on the way are
\* disposed, except the value of f and the gradients
variableGradients(b, varList) ==
  Then(f([b EXCEPT !.scope = <<>>, !.tape = <<>>, !.grads = <<>>]), LAMBDA b0 :
    LET value == b0.out IN
    Then(accumulate(b0, value.dataId, 1), LAMBDA b1 :
      Then(backpropagate(b1, Len(b1.tape)), LAMBDA b2 :
        LET names == {name \in DOMAIN b2.registeredVariables :
                        /\ b2.registeredVariables[name].trainable
                        /\ ~varList.given \/ name \in varList.names
                        /\ b2.registeredVariables[name].dataId \in DOMAIN b2.grads}
            gradients == GradientsOf(b2, names)
            kept == {value.dataId} \cup RangeOf(gradients)
        IN [disposeAll(b2, SelectSeq(b2.scope, LAMBDA id : id \notin kept))
              EXCEPT !.gradients = gradients, !.out = value])))

\* Variable.assign(newValue): the variable gives up its array for newValue's
assign(b, name, newValue) ==
  [disposeData(b, b.registeredVariables[name].dataId)
     EXCEPT !.registeredVariables[name].dataId = newValue.dataId]

\* SGDOptimizer.applyGradients: value := c * gradient + one * value
RECURSIVE applyGradients(_, _)
applyGradients(b, names) ==
  IF names = <<>> THEN b
  ELSE LET name == Head(names)
           gradient == scalarValue(b, b.gradients[name])
           value == scalarValue(b, b.registeredVariables[name].dataId)
           c == scalarValue(b, b.optimizer.c)
           one == scalarValue(b, b.optimizer.one)
       IN Then(Scalar(b, c * gradient + one * value), LAMBDA b0 :
            applyGradients(assign(b0, name, b0.out), Tail(names)))

\* Optimizer.minimize(f, returnCost, varList)
minimize(b, returnCost, varList) ==
  Then(variableGradients(b, varList), LAMBDA b0 :
    LET value == b0.out
        names == SelectSeq(VariableOrder, LAMBDA name : name \in DOMAIN b0.gradients)
    IN Then(applyGradients(b0, names), LAMBDA b1 :
         LET b2 == disposeAll(b1, [i \in DOMAIN names |-> b1.gradients[names[i]]]) IN
         IF returnCost
         THEN [b2 EXCEPT !.out = value, !.costs = @ \cup {value.dataId}]
         ELSE [disposeData(b2, value.dataId) EXCEPT !.out = NullArray]))

\* cost.dispose()
disposeCost(b, cost) == [disposeData(b, cost) EXCEPT !.costs = @ \ {cost}]

\* the end of the test: optimizer.dispose(), then every variable is disposed
tearDown(b) ==
  LET b0 == disposeAll(b, <<b.optimizer.c, b.optimizer.one>>)
      b1 == [b0 EXCEPT !.optimizer = NullOptimizer]
  IN disposeAll(b1, [i \in DOMAIN VariableOrder |->
                       b1.registeredVariables[VariableOrder[i]].dataId])

\* ------------------------------------------------------------------ inputs
WriteValues ==
  {Float32Array(<<Half(1), NaN>>), Int32Array(<<Num(16777217), Num(NAN_INT32)>>)}
RegisterInputs == {<<<<2>>, "float32">>, <<<<1, 2>>, "int32">>}
\* what a repeated register call for an issued handle passes
RepeatInput == <<<<1, 2>>, "int32">>
\* the environments the backend is constructed in: a browser with the
\* async-read extension, one with timer queries only, one with neither, and
\* a non-rendering environment (no document, hence no canvas)
Environments ==
  {[asyncExtension |-> TRUE, timerVersion |-> 1, canvas |-> TRUE, gpgpu |-> "none"],
   [asyncExtension |-> FALSE, timerVersion |-> 1, canvas |-> TRUE, gpgpu |-> "given"],
   [asyncExtension |-> FALSE, timerVersion |-> 0, canvas |-> FALSE, gpgpu |-> "none"]}
\* handles a caller holds: those the allocation layer has issued so far
Issued == {h \in Handles : h < nextDataId}
PixelSources ==
  {NullPixels,
   [kind |-> "image", height |-> 1, width |-> 2, data |-> <<Num(7), Num(9)>>],
   [kind |-> "video", height |-> 2, width |-> 1, data |-> <<Num(7), Num(9)>>]}

\* the arrays reductions are called with: one row, or a row followed by its
\* reverse with the two element values exchanged
ElementValues == {-1, 2}
ReduceBatchSizes == {1, 2}
Reverse(row) == [i \in DOMAIN row |-> row[Len(row) + 1 - i]]
Exchanged(row) == [i \in DOMAIN row |-> 1 - row[i]]
ReduceInputs ==
  UNION {{ArrayOf(<<batch, n>>, "int32", IF batch = 1 THEN row
                    ELSE row \o Exchanged(Reverse(row)))
            : row \in [1..n -> ElementValues]}
         : <<batch, n>> \in ReduceBatchSizes \X (1..MaxReduceSize)}
ReduceAxes == {<<1>>, <<0>>}
NoCall == ArrayOf(<<>>, "int32", <<>>)
NoReturn == [op |-> "none", axes |-> <<>>, err |-> "none", out |-> NoCall, passes |-> <<>>]

\* the time the device takes for a program; it is measured only while a timer
\* array is in use
ElapsedTimes == {1, 2}
ProgramTimes == IF activeTimers = NullTimers THEN {0} ELSE ElapsedTimes

\* the NDArray objects a caller can hold for handle h
ArraysOf(h) ==
  IF h \in DOMAIN texData
  THEN {NDArray(h, texData[h].shape, texData[h].dtype)}
  ELSE {NDArray(h, <<2>>, "float32")}

\* ----------------------------------------------------------------- history
RECURSIVE RegisteredAfter(_, _)
RegisteredAfter(set, events) ==
  IF events = <<>> THEN set
  ELSE LET e == Head(events) IN
       RegisteredAfter(IF e.ev = "register" THEN set \cup {e.id}
                       ELSE IF e.ev = "disposeData" THEN set \ {e.id}
                       ELSE set,
                       Tail(events))

IdsOf(events, ev) == {events[i].id : i \in {j \in DOMAIN events : events[j].ev = ev}}

NoInput == [values |-> NullValues, shape |-> NullShape, dtype |-> "float32",
            written |-> NullValues, axes |-> <<>>, pixels |-> NullPixels]

\* the values last written to h, null when there are none
WrittenTo(h) == IF h \in DOMAIN written THEN written[h] ELSE NullValues

Teardown(e) ==
  e.ev \in {"deleteProgram", "deleteMatrixTexture", "disposeTextureManager", "disposeGPGPU"}

\* An error thrown while time(f) calls are running f is caught in one of the
\* f, or in none: the calls above that one are left by the exception. An
\* asynchronous read throws nothing, its promise is rejected.
Unwound(b, op) ==
  IF b.err = NoError \/ op \in {"read", "readResume"} THEN {Len(timeFrames)}
  ELSE 0..Len(timeFrames)

\* the programs the call has run while a time(f) call was running or with a
\* query: the time(f) calls running, the query started for the program and the
\* time the device took for it
RunsOf(b) ==
  LET runs == SelectSeq([i \in DOMAIN b.events |-> i], LAMBDA i : b.events[i].ev = "run")
      Started(i) == {j \in 1..(i - 1) :
                      /\ b.events[j].ev = "startTimer"
                      /\ \A k \in (j + 1)..(i - 1) :
                           b.events[k].ev \notin {"run", "startTimer", "endTimer"}}
      all == [r \in DOMAIN runs |->
                [scopes |-> {timeFrames[j].newActiveTimers : j \in DOMAIN timeFrames},
                 query |-> IF Started(runs[r]) = {} THEN 0
                           ELSE b.events[CHOOSE j \in Started(runs[r]) : TRUE].id,
                 elapsed |-> b.elapsed]]
  IN SelectSeq(all, LAMBDA d : d.scopes # {} \/ d.query # 0)

\* Once dispose() has been called the backend is not used again, except that
\* dispose() may be called again.
Commit(b, op, args, resets, input) ==
  /\ steps < MaxSteps
  /\ op # "dispose" => ~disposed
  /\ disposed' = b.disposed
  /\ deviceLog' = deviceLog \o SelectSeq(b.events, Teardown)
  /\ steps' = steps + 1
  /\ texData' = b.texData
  /\ freeTextures' = b.freeTextures
  /\ allocatedTextures' = b.allocatedTextures
  /\ texContents' = b.texContents
  /\ binaryCache' = b.binaryCache
  /\ programs' = b.programs
  /\ nextDataId' = b.nextDataId
  /\ last' = [op |-> op, args |-> args, input |-> input, err |-> b.err,
              ret |-> b.ret, out |-> b.out, events |-> b.events, await |-> b.await]
  /\ registered' = RegisteredAfter(registered, b.events)
  /\ everDisposed' = everDisposed \cup IdsOf(b.events, "disposeData")
  /\ ensured' = (((ensured \cup IdsOf(b.events, "uploadToGPU")) \ resets)
                   \ IdsOf(b.events, "disposeData")) \cap DOMAIN b.texData
  /\ written' =
       LET kept == DOMAIN written \ IdsOf(b.events, "delete")
           new == IF op = "write" /\ b.err = NoError THEN {args[1]} ELSE {}
       IN [h \in kept \cup new |-> IF h \in new THEN input.values ELSE written[h]]
  /\ activeTimers' = b.activeTimers
  /\ programTimersStack' = b.programTimersStack
  /\ timerNodes' = b.timerNodes
  /\ queries' = b.queries
  /\ \E caught \in Unwound(b, op) : timeFrames' = SubSeq(timeFrames, 1, caught)
  /\ dispatched' = dispatched \o RunsOf(b)
  /\ registeredVariables' = b.registeredVariables
  /\ optimizer' = b.optimizer
  /\ costs' = b.costs
  /\ UNCHANGED <<delayedStorage, asyncExtension, timerVersion, canvas, gpgpuCreatedLocally,
                 reduceCall, reduceReturn, timeResults>>

\* ----------------------------------------------------------------- actions
\* the backend as its constructor leaves it
Constructed ==
  /\ texData = <<>>
  /\ freeTextures = [k \in TexKeys |-> <<>>]
  /\ allocatedTextures = <<>>
  /\ texContents = <<>>
  /\ binaryCache = <<>>
  /\ programs = <<>>
  /\ nextDataId = 1
  /\ disposed = FALSE
  /\ deviceLog = <<>>
  /\ pendingReads = <<>>
  /\ steps = 0
  /\ last = [op |-> "init", args |-> <<>>, input |-> NoInput, err |-> NoError,
             ret |-> NullValues, out |-> NullArray, events |-> <<>>, await |-> "none"]
  /\ registered = {}
  /\ everDisposed = {}
  /\ ensured = {}
  /\ written = <<>>
  /\ activeTimers = NullTimers
  /\ programTimersStack = NullTimers
  /\ timerNodes = <<>>
  /\ queries = <<>>
  /\ timeFrames = <<>>
  /\ timeResults = <<>>
  /\ dispatched = <<>>
  /\ registeredVariables = <<>>
  /\ optimizer = NullOptimizer
  /\ costs = {}

ConstructedIn(env) ==
  /\ asyncExtension = env.asyncExtension
  /\ timerVersion = env.timerVersion
  /\ canvas = env.canvas
  /\ gpgpuCreatedLocally = (env.gpgpu = "none")

Init ==
  /\ Constructed
  /\ delayedStorage \in BOOLEAN
  /\ \E env \in Environments : ConstructedIn(env)
  /\ reduceCall = NoCall
  /\ reduceReturn = NoReturn

\* register(dataId, ...): by NDArray.make with a new id, or again with an id
\* that has been issued before
Register(h, shape, dtype) ==
  /\ h <= MaxHandles
  /\ Commit(register([Backend EXCEPT !.nextDataId = IF h = nextDataId THEN @ + 1 ELSE @],
                     h, shape, dtype),
            "register", <<h>>, {}, [NoInput EXCEPT !.shape = shape, !.dtype = dtype])
  /\ UNCHANGED pendingReads

Write(h, values) ==
  /\ Commit(write(Backend, h, values), "write", <<h>>, {h},
            [NoInput EXCEPT !.values = values])
  /\ UNCHANGED pendingReads

ReadSync(h) ==
  /\ Commit(readSync(Backend, h), "readSync", <<h>>, {h}, NoInput)
  /\ UNCHANGED pendingReads

Read(h) ==
  LET b == read(Backend, h) IN
  /\ steps < MaxSteps
  /\ b.await # "none" => Len(pendingReads) < MaxPending
  /\ Commit(b, "read", <<h>>, {h}, NoInput)
  /\ pendingReads' =
       IF b.await = "none" THEN pendingReads
       ELSE Append(pendingReads,
                   [dataId |-> h, path |-> b.await,
                    float32Values |-> IF b.await = "async" THEN b.ret ELSE NullValues,
                    written |-> WrittenTo(h)])

ReadResume(i) ==
  LET p == pendingReads[i] IN
  /\ Commit(readResume(Backend, p), "readResume", <<p.dataId>>, {p.dataId},
            [NoInput EXCEPT !.values = p.float32Values, !.written = p.written])
  /\ pendingReads' = [j \in 1..(Len(pendingReads) - 1) |->
                        IF j < i THEN pendingReads[j] ELSE pendingReads[j + 1]]

DisposeData(h) ==
  /\ Commit(disposeData(Backend, h), "disposeData", <<h>>, {h}, NoInput)
  /\ UNCHANGED pendingReads

GetTexture(h) ==
  /\ Commit(getTexture(Backend, h), "getTexture", <<h>>, {}, NoInput)
  /\ UNCHANGED pendingReads

GetTextureData(h) ==
  /\ Commit(getTextureData(Backend, h), "getTextureData", <<h>>, {}, NoInput)
  /\ UNCHANGED pendingReads

Clone(h) ==
  /\ nextDataId <= MaxHandles
  /\ \E x \in ArraysOf(h) : Commit(clone(Backend, x), "clone", <<h>>, {}, NoInput)
  /\ UNCHANGED pendingReads

Relu(h) ==
  /\ nextDataId \in DataIds
  /\ \E x \in ArraysOf(h), elapsed \in ProgramTimes :
       Commit(relu([Backend EXCEPT !.elapsed = elapsed], x), "relu", <<h>>, {}, NoInput)
  /\ UNCHANGED pendingReads

Maximum(h1, h2) ==
  /\ nextDataId <= MaxHandles
  /\ \E a \in ArraysOf(h1), c \in ArraysOf(h2) :
       /\ a.shape = c.shape
       /\ Commit(maximum(Backend, a, c), "maximum", <<h1, h2>>, {}, NoInput)
  /\ UNCHANGED pendingReads

FromPixels(pixels) ==
  /\ nextDataId + 1 <= MaxHandles
  /\ Commit(fromPixels(Backend, pixels, 1), "fromPixels", <<>>, {},
            [NoInput EXCEPT !.pixels = pixels])
  /\ UNCHANGED pendingReads

Dispose ==
  /\ Commit(dispose(Backend), "dispose", <<>>, {}, NoInput)
  /\ UNCHANGED pendingReads

Next ==
  \/ \E in \in RegisterInputs : Register(nextDataId, in[1], in[2])
  \/ \E h \in Issued : Register(h, RepeatInput[1], RepeatInput[2])
  \/ \E h \in Issued, values \in WriteValues \cup {NullValues} : Write(h, values)
  \/ \E h \in Issued : ReadSync(h)
  \/ \E h \in Issued : Read(h)
  \/ \E i \in DOMAIN pendingReads : ReadResume(i)
  \/ \E h \in Issued : DisposeData(h)
  \/ \E h \in Issued : GetTexture(h)
  \/ \E h \in Issued : GetTextureData(h)
  \/ \E h \in Issued : Clone(h)
  \/ \E h \in Issued : Relu(h)
  \/ \E h1 \in Issued, h2 \in Issued : Maximum(h1, h2)
  \/ \E pixels \in PixelSources : FromPixels(pixels)
  \/ Dispose

Spec == Init /\ [][Next]_vars

\* ----------------------------------------- a caller of the dispatched operations
\* The dispatched operations do not look at the environment: one is taken.
InitDispatch ==
  /\ Constructed
  /\ delayedStorage \in BOOLEAN
  /\ ConstructedIn(CHOOSE env \in Environments : env.asyncExtension)
  /\ reduceCall = NoCall
  /\ reduceReturn = NoReturn

\* A reduction is called as long as the next id stays in DataIds after it.
SumDispatch(h, axes) ==
  /\ steps < MaxSteps
  /\ \E x \in ArraysOf(h) : \E b \in sumDispatch(Backend, x, axes) :
       /\ b.nextDataId \in DataIds
       /\ Commit(b, "sum", <<h>>, {}, [NoInput EXCEPT !.axes = axes])
  /\ UNCHANGED pendingReads

Min(h, axes) ==
  /\ steps < MaxSteps
  /\ \E x \in ArraysOf(h) : \E b \in min(Backend, x, axes) :
       /\ b.nextDataId \in DataIds
       /\ Commit(b, "min", <<h>>, {}, [NoInput EXCEPT !.axes = axes])
  /\ UNCHANGED pendingReads

Max(h, axes) ==
  /\ steps < MaxSteps
  /\ \E x \in ArraysOf(h) : \E b \in max(Backend, x, axes) :
       /\ b.nextDataId \in DataIds
       /\ Commit(b, "max", <<h>>, {}, [NoInput EXCEPT !.axes = axes])
  /\ UNCHANGED pendingReads

ArgMinDispatch(h, axes) ==
  /\ steps < MaxSteps
  /\ \E x \in ArraysOf(h) : \E b \in argMinDispatch(Backend, x, axes) :
       /\ b.nextDataId \in DataIds
       /\ Commit(b, "argMin", <<h>>, {}, [NoInput EXCEPT !.axes = axes])
  /\ UNCHANGED pendingReads

ArgMaxDispatch(h, axes) ==
  /\ steps < MaxSteps
  /\ \E x \in ArraysOf(h) : \E b \in argMaxDispatch(Backend, x, axes) :
       /\ b.nextDataId \in DataIds
       /\ Commit(b, "argMax", <<h>>, {}, [NoInput EXCEPT !.axes = axes])
  /\ UNCHANGED pendingReads

NextDispatch ==
  \/ \E in \in RegisterInputs : Register(nextDataId, in[1], in[2])
  \/ \E h \in Issued, values \in WriteValues : Write(h, values)
  \/ \E h \in Issued : DisposeData(h)
  \/ \E h \in Issued, axes \in ReduceAxes : SumDispatch(h, axes)
  \/ \E h \in Issued, axes \in ReduceAxes : Min(h, axes)
  \/ \E h \in Issued, axes \in ReduceAxes : Max(h, axes)
  \/ \E h \in Issued, axes \in ReduceAxes : ArgMinDispatch(h, axes)
  \/ \E h \in Issued, axes \in ReduceAxes : ArgMaxDispatch(h, axes)

SpecDispatch == InitDispatch /\ [][NextDispatch]_vars

\* ------------------------------------------------------- a caller of time(f)
storeVars ==
  <<texData, freeTextures, allocatedTextures, texContents, binaryCache, programs,
    nextDataId, disposed, gpgpuCreatedLocally, deviceLog,
    delayedStorage, asyncExtension, timerVersion, canvas,
    pendingReads, steps, registered, everDisposed, ensured, written,
    reduceCall, reduceReturn, dispatched,
    registeredVariables, optimizer, costs>>

TimerCall(op, scope) ==
  [op |-> op, args |-> <<scope>>, input |-> NoInput, err |-> NoError,
   ret |-> NullValues, out |-> NullArray, events |-> <<>>, await |-> "none"]

\* time(f) is called and calls f; what f does are the steps that follow
TimeEnter ==
  /\ ~disposed
  /\ Len(timerNodes) < MaxScopes
  /\ LET b == timeEnter(Backend) IN
       /\ activeTimers' = b.activeTimers
       /\ programTimersStack' = b.programTimersStack
       /\ timerNodes' = b.timerNodes
       /\ queries' = b.queries
       /\ timeFrames' = Append(timeFrames, FrameOf(Backend))
       /\ last' = TimerCall("time", FrameOf(Backend).newActiveTimers)
  /\ UNCHANGED <<storeVars, timeResults>>

\* the f of the innermost time(f) call returns, and so does the call
TimeReturn ==
  /\ ~disposed
  /\ timeFrames # <<>>
  /\ LET frame == timeFrames[Len(timeFrames)]
         b == timeReturn(Backend, frame)
     IN /\ activeTimers' = b.activeTimers
        /\ programTimersStack' = b.programTimersStack
        /\ timerNodes' = b.timerNodes
        /\ queries' = b.queries
        /\ timeFrames' = SubSeq(timeFrames, 1, Len(timeFrames) - 1)
        /\ timeResults' = Append(timeResults,
                                 [scope |-> frame.newActiveTimers, sum |-> b.query])
        /\ last' = TimerCall("timeReturn", frame.newActiveTimers)
  /\ UNCHANGED storeVars

InitTime ==
  /\ Constructed
  /\ delayedStorage = TRUE
  /\ \E env \in Environments : ConstructedIn(env)
  /\ reduceCall = NoCall
  /\ reduceReturn = NoReturn

NextTime ==
  \/ \E in \in RegisterInputs : Register(nextDataId, in[1], in[2])
  \/ \E h \in Issued : Write(h, NullValues)
  \/ \E h \in Issued : Relu(h)
  \/ TimeEnter
  \/ TimeReturn

SpecTime == InitTime /\ [][NextTime]_vars

\* ------------------------------------------- a caller of the binary operations
\* The operations are applied once every handle is registered, and their
\* output takes the next id.
\* the operands of a binary operation: two arrays of one shape
Operands(h1, h2) ==
  {ac \in ArraysOf(h1) \X ArraysOf(h2) : ac[1].shape = ac[2].shape}

Equal(h1, h2) ==
  /\ nextDataId = MaxHandles + 1
  /\ \E ac \in Operands(h1, h2) :
       Commit(equal(Backend, ac[1], ac[2]), "equal", <<h1, h2>>, {}, NoInput)
  /\ UNCHANGED pendingReads

NotEqual(h1, h2) ==
  /\ nextDataId = MaxHandles + 1
  /\ \E ac \in Operands(h1, h2) :
       Commit(notEqual(Backend, ac[1], ac[2]), "notEqual", <<h1, h2>>, {}, NoInput)
  /\ UNCHANGED pendingReads

Less(h1, h2) ==
  /\ nextDataId = MaxHandles + 1
  /\ \E ac \in Operands(h1, h2) :
       Commit(less(Backend, ac[1], ac[2]), "less", <<h1, h2>>, {}, NoInput)
  /\ UNCHANGED pendingReads

LessEqual(h1, h2) ==
  /\ nextDataId = MaxHandles + 1
  /\ \E ac \in Operands(h1, h2) :
       Commit(lessEqual(Backend, ac[1], ac[2]), "lessEqual", <<h1, h2>>, {}, NoInput)
  /\ UNCHANGED pendingReads

Greater(h1, h2) ==
  /\ nextDataId = MaxHandles + 1
  /\ \E ac \in Operands(h1, h2) :
       Commit(greater(Backend, ac[1], ac[2]), "greater", <<h1, h2>>, {}, NoInput)
  /\ UNCHANGED pendingReads

GreaterEqual(h1, h2) ==
  /\ nextDataId = MaxHandles + 1
  /\ \E ac \in Operands(h1, h2) :
       Commit(greaterEqual(Backend, ac[1], ac[2]), "greaterEqual", <<h1, h2>>, {}, NoInput)
  /\ UNCHANGED pendingReads

LogicalAnd(h1, h2) ==
  /\ nextDataId = MaxHandles + 1
  /\ \E ac \in Operands(h1, h2) :
       Commit(logicalAnd(Backend, ac[1], ac[2]), "logicalAnd", <<h1, h2>>, {}, NoInput)
  /\ UNCHANGED pendingReads

LogicalOr(h1, h2) ==
  /\ nextDataId = MaxHandles + 1
  /\ \E ac \in Operands(h1, h2) :
       Commit(logicalOr(Backend, ac[1], ac[2]), "logicalOr", <<h1, h2>>, {}, NoInput)
  /\ UNCHANGED pendingReads

Minimum(h1, h2) ==
  /\ nextDataId = MaxHandles + 1
  /\ \E ac \in Operands(h1, h2) :
       Commit(minimum(Backend, ac[1], ac[2]), "minimum", <<h1, h2>>, {}, NoInput)
  /\ UNCHANGED pendingReads

Divide(h1, h2) ==
  /\ nextDataId = MaxHandles + 1
  /\ \E ac \in Operands(h1, h2) :
       Commit(divide(Backend, ac[1], ac[2]), "divide", <<h1, h2>>, {}, NoInput)
  /\ UNCHANGED pendingReads

Multiply(h1, h2) ==
  /\ nextDataId = MaxHandles + 1
  /\ \E ac \in Operands(h1, h2) :
       Commit(multiply(Backend, ac[1], ac[2]), "multiply", <<h1, h2>>, {}, NoInput)
  /\ UNCHANGED pendingReads

Add(h1, h2) ==
  /\ nextDataId = MaxHandles + 1
  /\ \E ac \in Operands(h1, h2) :
       Commit(add(Backend, ac[1], ac[2]), "add", <<h1, h2>>, {}, NoInput)
  /\ UNCHANGED pendingReads

Subtract(h1, h2) ==
  /\ nextDataId = MaxHandles + 1
  /\ \E ac \in Operands(h1, h2) :
       Commit(subtract(Backend, ac[1], ac[2]), "subtract", <<h1, h2>>, {}, NoInput)
  /\ UNCHANGED pendingReads

Pow(h1, h2) ==
  /\ nextDataId = MaxHandles + 1
  /\ \E ac \in Operands(h1, h2) :
       Commit(pow(Backend, ac[1], ac[2]), "pow", <<h1, h2>>, {}, NoInput)
  /\ UNCHANGED pendingReads

MaximumOf(h1, h2) ==
  /\ nextDataId = MaxHandles + 1
  /\ \E ac \in Operands(h1, h2) :
       Commit(maximum(Backend, ac[1], ac[2]), "maximum", <<h1, h2>>, {}, NoInput)
  /\ UNCHANGED pendingReads

Encodings == {"bool", "int32", "float32"}

NextBinary ==
  \/ \E dtype \in Encodings : Register(nextDataId, <<2>>, dtype)
  \/ \E h1 \in Issued, h2 \in Issued : Equal(h1, h2)
  \/ \E h1 \in Issued, h2 \in Issued : NotEqual(h1, h2)
  \/ \E h1 \in Issued, h2 \in Issued : Less(h1, h2)
  \/ \E h1 \in Issued, h2 \in Issued : LessEqual(h1, h2)
  \/ \E h1 \in Issued, h2 \in Issued : Greater(h1, h2)
  \/ \E h1 \in Issued, h2 \in Issued : GreaterEqual(h1, h2)
  \/ \E h1 \in Issued, h2 \in Issued : LogicalAnd(h1, h2)
  \/ \E h1 \in Issued, h2 \in Issued : LogicalOr(h1, h2)
  \/ \E h1 \in Issued, h2 \in Issued : Minimum(h1, h2)
  \/ \E h1 \in Issued, h2 \in Issued : Divide(h1, h2)
  \/ \E h1 \in Issued, h2 \in Issued : Multiply(h1, h2)
  \/ \E h1 \in Issued, h2 \in Issued : Add(h1, h2)
  \/ \E h1 \in Issued, h2 \in Issued : Subtract(h1, h2)
  \/ \E h1 \in Issued, h2 \in Issued : Pow(h1, h2)
  \/ \E h1 \in Issued, h2 \in Issued : MaximumOf(h1, h2)

SpecBinary == InitDispatch /\ [][NextBinary]_vars

\* ------------------------------------------------------- the optimizer tests
\* the learning rate of the tests' optimizer (an integer; the tests use 0.1)
LearningRates == {1}
\* the varList arguments of the tests: none, [], [x], [x, bias]; and [bias]
VarLists == {NullVarList} \cup {VarList(names) : names \in SUBSET {"x", "bias"}}

\* the backend record of a newly constructed backend
NewBackend ==
  [texData |-> <<>>, freeTextures |-> [k \in TexKeys |-> <<>>],
   allocatedTextures |-> <<>>, texContents |-> <<>>,
   binaryCache |-> <<>>, programs |-> <<>>, nextDataId |-> 1,
   err |-> NoError, events |-> <<>>, ret |-> NullValues, tex |-> NullTexture,
   bin |-> 0, out |-> NullArray, await |-> "none", disposed |-> FALSE,
   activeTimers |-> NullTimers, programTimersStack |-> NullTimers,
   timerNodes |-> <<>>, queries |-> <<>>, query |-> 0, elapsed |-> 0,
   registeredVariables |-> <<>>, optimizer |-> NullOptimizer,
   costs |-> {}, tape |-> <<>>, scope |-> <<>>, grads |-> <<>>, gradients |-> <<>>]

\* the start of a test: the optimizer, then x = 4, bias = 1, strayVariable = -1
setUp(learningRate, trainable) ==
  Then(SGDOptimizer(NewBackend, learningRate), LAMBDA b0 :
    Then(variable(b0, "x", 4, trainable["x"]), LAMBDA b1 :
      Then(variable(b1, "bias", 1, trainable["bias"]), LAMBDA b2 :
        variable(b2, "strayVariable", -1, TRUE))))

InitOptimizer ==
  /\ delayedStorage = TRUE
  /\ ConstructedIn(CHOOSE env \in Environments : env.asyncExtension)
  /\ \E learningRate \in LearningRates, trainable \in [{"x", "bias"} -> BOOLEAN] :
       LET b == setUp(learningRate, trainable) IN
       /\ texData = b.texData
       /\ nextDataId = b.nextDataId
       /\ registeredVariables = b.registeredVariables
       /\ optimizer = b.optimizer
       /\ registered = DOMAIN b.texData
       /\ written = [h \in DOMAIN b.texData |-> b.texData[h].values]
  /\ costs = {}
  /\ freeTextures = [k \in TexKeys |-> <<>>]
  /\ allocatedTextures = <<>>
  /\ texContents = <<>>
  /\ binaryCache = <<>>
  /\ programs = <<>>
  /\ disposed = FALSE
  /\ deviceLog = <<>>
  /\ pendingReads = <<>>
  /\ steps = 0
  /\ last = [op |-> "init", args |-> <<>>, input |-> NoInput, err |-> NoError,
             ret |-> NullValues, out |-> NullArray, events |-> <<>>, await |-> "none"]
  /\ everDisposed = {}
  /\ ensured = {}
  /\ activeTimers = NullTimers
  /\ programTimersStack = NullTimers
  /\ timerNodes = <<>>
  /\ queries = <<>>
  /\ timeFrames = <<>>
  /\ timeResults = <<>>
  /\ dispatched = <<>>
  /\ reduceCall = NoCall
  /\ reduceReturn = NoReturn

\* math.getNumArrays()
getNumArrays(b) == Cardinality(DOMAIN b.texData)
\* the value of every variable, as the tests read them
VariableValues(b) ==
  [name \in VariableNames |-> b.texData[b.registeredVariables[name].dataId].values.data[1]]
\* the variables f has read
UsedBy(b) ==
  {name \in VariableNames :
     \E i \in DOMAIN b.tape :
       \E k \in DOMAIN b.tape[i].inputs :
         b.tape[i].inputs[k] = registeredVariables[name].dataId}

MinimizeInput(b, returnCost, varList) ==
  [returnCost |-> returnCost, varList |-> varList,
   numArrays |-> getNumArrays(Backend), values |-> VariableValues(Backend),
   used |-> UsedBy(b)]

Minimize(returnCost, varList) ==
  /\ steps < MaxSteps
  /\ optimizer # NullOptimizer
  /\ LET b == minimize(Backend, returnCost, varList) IN
       Commit(b, "minimize", <<>>, {}, MinimizeInput(b, returnCost, varList))
  /\ UNCHANGED pendingReads

DisposeCost(cost) ==
  /\ Commit(disposeCost(Backend, cost), "disposeCost", <<cost>>, {}, NoInput)
  /\ UNCHANGED pendingReads

TearDown ==
  /\ optimizer # NullOptimizer
  /\ Commit(tearDown(Backend), "tearDown", <<>>, {}, NoInput)
  /\ UNCHANGED pendingReads

NextOptimizer ==
  \/ \E returnCost \in BOOLEAN, varList \in VarLists : Minimize(returnCost, varList)
  \/ \E cost \in costs : DisposeCost(cost)
  \/ TearDown

SpecOptimizer == InitOptimizer /\ [][NextOptimizer]_vars

\* ------------------------------------------------- the reductions on their own
backendVars ==
  <<texData, freeTextures, allocatedTextures, texContents, binaryCache, programs,
    nextDataId, disposed, gpgpuCreatedLocally, deviceLog,
    delayedStorage, asyncExtension, timerVersion, canvas,
    pendingReads, steps, last, registered, everDisposed, ensured, written,
    activeTimers, programTimersStack, timerNodes, queries, timeFrames,
    timeResults, dispatched, registeredVariables, optimizer, costs>>

InitReduce ==
  /\ Constructed
  /\ delayedStorage = TRUE
  /\ ConstructedIn(CHOOSE env \in Environments : env.asyncExtension)
  /\ reduceCall \in ReduceInputs
  /\ reduceReturn = NoReturn

ReturnOf(op, axes, r) ==
  [op |-> op, axes |-> axes, err |-> r.err, out |-> r.out, passes |-> r.passes]

Sum ==
  /\ reduceReturn = NoReturn
  /\ \E axes \in ReduceAxes : \E r \in sum(reduceCall, axes) :
       reduceReturn' = ReturnOf("sum", axes, r)
  /\ UNCHANGED <<backendVars, reduceCall>>

ArgMin ==
  /\ reduceReturn = NoReturn
  /\ \E axes \in ReduceAxes : \E r \in argMin(reduceCall, axes) :
       reduceReturn' = ReturnOf("argMin", axes, r)
  /\ UNCHANGED <<backendVars, reduceCall>>

ArgMax ==
  /\ reduceReturn = NoReturn
  /\ \E axes \in ReduceAxes : \E r \in argMax(reduceCall, axes) :
       reduceReturn' = ReturnOf("argMax", axes, r)
  /\ UNCHANGED <<backendVars, reduceCall>>

NextReduce == Sum \/ ArgMin \/ ArgMax

SpecReduce == InitReduce /\ [][NextReduce]_vars

\* ------------------------------------------------------------------ claims
Blocks == 1..Len(allocatedTextures)
FreeCountIn(free, t) ==
  Cardinality({ki \in UNION {{<<k, i>> : i \in DOMAIN free[k]} : k \in TexKeys} :
                 free[ki[1]][ki[2]] = t})
FreeCount(t) == FreeCountIn(freeTextures, t)
AttachCount(t) == Cardinality({h \in DOMAIN texData : texData[h].texture = t})
InPoolOf(free, t) == FreeCountIn(free, t) = 1
ArgsOf(call) == {call.args[i] : i \in DOMAIN call.args}
HandleOps == {"write", "readSync", "read", "readResume", "getTexture",
              "getTextureData", "clone", "relu", "maximum"}
ResidencyOps == {"getTexture", "getTextureData", "clone", "relu", "maximum"}
HasEvent(events, ev) == \E i \in DOMAIN events : events[i].ev = ev

\* C1: in every reachable state a residency record exists for a handle if and
\* only if register has been called for it and disposeData has not been called
\* for it since.
C1_RecordIffRegistered == DOMAIN texData = registered

C1_Witness ==
  /\ last.op = "disposeData"
  /\ last.args[1] \in everDisposed \ DOMAIN texData
  /\ DOMAIN texData # {}

\* C2: every device block that has been created is either free in the pool
\* (once) or attached to exactly one live residency record, never both and
\* never neither; a record's texture is always such a block.
C2_BlockInvariant ==
  /\ \A t \in Blocks : FreeCount(t) + AttachCount(t) = 1
  /\ \A h \in DOMAIN texData : texData[h].texture \in Blocks \cup {NullTexture}
  /\ \A k \in TexKeys : \A i \in DOMAIN freeTextures[k] : freeTextures[k][i] \in Blocks

C2_Witness ==
  /\ \E t \in Blocks : FreeCount(t) = 1
  /\ \E t \in Blocks : AttachCount(t) = 1
  /\ everDisposed # {}
  /\ last.op = "readResume" /\ last.err = NoError

\* C3: write, readSync, read, getTexture, getTextureData, clone and every dispatched operation
\* given a handle without a residency record fail with the "No data found"
\* error naming that handle, also when the handle was disposed while an
\* asynchronous read of it was suspended.  (A write of null values is left
\* aside: it is rejected for its values before the handle is looked at.)
C3_NoDataError ==
  (/\ last.op \in HandleOps
   /\ ArgsOf(last) \ DOMAIN texData # {}
   /\ ~(last.op = "write" /\ last.input.values = NullValues))
    => /\ last.err.name = "NoData"
       /\ last.err.id \in ArgsOf(last) \ DOMAIN texData

Disposed(h) == h \in everDisposed /\ h \notin DOMAIN texData

C5_WriteHostOnly ==
  [][(last'.op = "write" /\ last'.err = NoError) =>
       LET h == last'.args[1] IN
       /\ texData'[h].values = last'.input.values
       /\ texData'[h].texture = NullTexture
       /\ texData[h].texture # NullTexture
            => InPoolOf(freeTextures', texData[h].texture)]_vars

\* C5 as amended: with delayedStorage, write leaves the record host-only with
\* the written buffer and the block it had free in the pool; without
\* delayedStorage, write releases the old block and uploads at once: the
\* record then has no host values and a block attached that holds the written
\* values, and the old block is free or is the one attached again.
C5_WriteByStorageMode ==
  [][(last'.op = "write" /\ last'.err = NoError) =>
       LET h == last'.args[1]
           old == texData[h].texture
           new == texData'[h].texture
       IN IF delayedStorage
          THEN /\ texData'[h].values = last'.input.values
               /\ new = NullTexture
               /\ texData'[h].texShape = NullShape
               /\ old # NullTexture => InPoolOf(freeTextures', old)
          ELSE /\ texData'[h].values = NullValues
               /\ new # NullTexture
               /\ texContents'[new] =
                    typedArrayToFloat32(last'.input.values, texData[h].dtype).data
               /\ old # NullTexture => (InPoolOf(freeTextures', old) \/ new = old)
               /\ \A t \in 1..Len(allocatedTextures') :
                    FreeCountIn(freeTextures', t)
                      + Cardinality({g \in DOMAIN texData' : texData'[g].texture = t}) = 1]_vars

C5_Witness ==
  /\ last.op = "write"
  /\ last.err = NoError
  /\ ~delayedStorage
  /\ HasEvent(last.events, "release")
  /\ texData[last.args[1]].texture # NullTexture

ReleaseBeforeDelete(events, t, h) ==
  \E i \in DOMAIN events, j \in DOMAIN events :
    /\ i < j
    /\ events[i].ev = "release" /\ events[i].tex = t
    /\ events[j].ev = "delete" /\ events[j].id = h

\* C6: disposeData(h) succeeds whatever state the record of h is in; when it
\* returns the record is gone and the block it had is free in the pool, having
\* been released before the record was removed; no other record is changed.
C6_DisposeData ==
  [][(last'.op = "disposeData" /\ last'.args[1] \in DOMAIN texData) =>
       LET h == last'.args[1]
           t == texData[h].texture
       IN /\ last'.err = NoError
          /\ DOMAIN texData' = DOMAIN texData \ {h}
          /\ \A g \in DOMAIN texData' : texData'[g] = texData[g]
          /\ t # NullTexture =>
               /\ InPoolOf(freeTextures', t)
               /\ ReleaseBeforeDelete(last'.events, t, h)]_vars

C6_Witness ==
  /\ last.op = "disposeData"
  /\ last.err = NoError
  /\ HasEvent(last.events, "release")
  /\ HasEvent(last.events, "delete")
  /\ DOMAIN texData # {}

\* C7: register on a handle that already has a record fails and leaves the
\* record, and the pool, unchanged.
C7_DoubleRegister ==
  [][(last'.op = "register" /\ last'.args[1] \in DOMAIN texData) =>
       /\ last'.err = Err("AlreadyRegistered", last'.args[1])
       /\ texData' = texData
       /\ freeTextures' = freeTextures]_vars

C7_Witness ==
  /\ last.op = "register"
  /\ last.err.name = "AlreadyRegistered"
  /\ texData[last.args[1]].texture # NullTexture
  /\ texData[last.args[1]].shape # last.input.shape

\* C8: register on an unregistered handle creates a record with the given
\* shape and dtype and with values, texture and texture shape null, and
\* acquires no block; a record's texture becomes non-null only in a call that
\* runs uploadToGPU for that handle.
C8_RegisterFresh ==
  [][/\ (last'.op = "register" /\ last'.args[1] \notin DOMAIN texData) =>
          LET h == last'.args[1] IN
          /\ last'.err = NoError
          /\ h \in DOMAIN texData'
          /\ texData'[h].shape = last'.input.shape
          /\ texData'[h].dtype = last'.input.dtype
          /\ texData'[h].values = NullValues
          /\ texData'[h].texture = NullTexture
          /\ texData'[h].texShape = NullShape
          /\ freeTextures' = freeTextures
          /\ allocatedTextures' = allocatedTextures
          /\ ~HasEvent(last'.events, "acquire")
     /\ \A h \in DOMAIN texData' :
          (/\ texData'[h].texture # NullTexture
           /\ (h \notin DOMAIN texData \/ texData[h].texture = NullTexture))
            => \E i \in DOMAIN last'.events :
                 last'.events[i].ev = "uploadToGPU" /\ last'.events[i].id = h]_vars

C8_Witness ==
  /\ last.op = "register"
  /\ last.err = NoError
  /\ \E t \in Blocks : FreeCount(t) = 1
  /\ texData[last.args[1]].texture = NullTexture

\* C9: once residency of h has been ensured, a further residency-ensuring call
\* on h, with no write, read or dispose of h in between, acquires no block,
\* uploads nothing and leaves the record as the first call left it.
C9_ResidencyIdempotent ==
  [][\A h \in ensured :
       /\ h \in ensured' => (h \in DOMAIN texData /\ texData'[h] = texData[h])
       /\ (last'.op \in ResidencyOps /\ h \in ArgsOf(last')) =>
            /\ texData'[h] = texData[h]
            /\ texData[h].texture # NullTexture
            /\ \A i \in DOMAIN last'.events :
                 last'.events[i].ev \in {"acquire", "create", "upload"}
                   => last'.events[i].tex # texData[h].texture]_vars

C9_Witness ==
  /\ last.op = "getTexture"
  /\ last.err = NoError
  /\ delayedStorage
  /\ last.args[1] \in ensured
  /\ ~HasEvent(last.events, "acquire")

\* C10: when a host read (readSync, or read on any of its paths) of a
\* device-resident record returns, the record holds the downloaded values; with
\* delayedStorage it has no block attached and the block it had is free in the
\* pool, without delayedStorage the block stays attached.
C10_ReadCaches ==
  [][(/\ last'.op \in {"readSync", "read", "readResume"}
      /\ last'.err = NoError
      /\ last'.op = "read" => pendingReads' = pendingReads
      /\ last'.args[1] \in DOMAIN texData
      /\ texData[last'.args[1]].values = NullValues
      /\ texData[last'.args[1]].texture # NullTexture) =>
       LET h == last'.args[1]
           t == texData[h].texture
           downloaded == IF last'.op = "readResume" /\ last'.input.values # NullValues
                         THEN last'.input.values
                         ELSE Float32Array(texContents[t])
       IN /\ texData'[h].values = float32ToTypedArray(downloaded, texData[h].dtype)
          /\ last'.ret = texData'[h].values
          /\ IF delayedStorage
             THEN /\ texData'[h].texture = NullTexture
                  /\ texData'[h].texShape = NullShape
                  /\ InPoolOf(freeTextures', t)
             ELSE /\ texData'[h].texture = t
                  /\ texData'[h].texShape = texData[h].texShape
                  /\ ~InPoolOf(freeTextures', t)]_vars

C10_Witness ==
  /\ last.op = "readResume"
  /\ last.err = NoError
  /\ delayedStorage
  /\ HasEvent(last.events, "release")
  /\ texData[last.args[1]].values # NullValues

\* the typed array of a dtype, and a value's trip to the device and back
TypedArrayOf(dtype) ==
  IF dtype = "float32" THEN "Float32Array"
  ELSE IF dtype = "int32" THEN "Int32Array" ELSE "Uint8Array"
RoundTrip(values, dtype) == float32ToTypedArray(typedArrayToFloat32(values, dtype), dtype)

\* the step completes a host read of h (a read that suspends completes at its
\* resumption) from a state in which h is on the device only and holds what
\* was last written to it
ReadsBack(h) ==
  /\ last'.op \in {"readSync", "read", "readResume"}
  /\ last'.args = <<h>>
  /\ last'.err = NoError
  /\ last'.op = "read" => pendingReads' = pendingReads
  /\ h \in DOMAIN texData /\ h \in DOMAIN written
  /\ texData[h].values = NullValues
  /\ texData[h].texture # NullTexture
  /\ (last'.op = "readResume" /\ last'.input.values # NullValues)
       => last'.input.written = written[h]

\* the record every read path leaves behind
RecordAfterRead(h, values) ==
  [texData[h] EXCEPT !.values = values,
                     !.texture = IF delayedStorage THEN NullTexture ELSE @,
                     !.texShape = IF delayedStorage THEN NullShape ELSE @]

ValuesOfLastWrite(h) == {written[h], RoundTrip(written[h], texData[h].dtype)}

\* C12: a read of h issued after the last write to h returns the values of
\* that write, and the host values of the record of h are never older than the
\* last write, also when the write ran while an earlier asynchronous read of h
\* was suspended.
C12_ReadsLastWrite ==
  \A h \in DOMAIN written \cap DOMAIN texData :
    /\ texData[h].values # NullValues => texData[h].values \in ValuesOfLastWrite(h)
    /\ (/\ last.op \in {"readSync", "read", "readResume"}
        /\ last.args = <<h>>
        /\ last.err = NoError
        /\ last.await = "none"
        /\ last.op = "readResume" => last.input.written = written[h])
         => last.ret \in ValuesOfLastWrite(h)

EventsOf(events, ev) == {i \in DOMAIN events : events[i].ev = ev}

\* C13: read(h) returns cached host values with no download and no barrier;
\* without them it starts the non-blocking download when the async-read
\* extension is enabled, does the blocking readSync at once when the extension is
\* not enabled and the timer-query version is 0, and otherwise awaits the
\* runQuery barrier and does the blocking download only once the barrier has
\* completed.
C13_ReadPath ==
  [][/\ (last'.op = "read" /\ last'.args[1] \in DOMAIN texData) =>
          LET h == last'.args[1]
              d == texData[h]
              e == last'.events
          IN IF d.values # NullValues
             THEN /\ last'.ret = d.values /\ last'.err = NoError
                  /\ last'.await = "none" /\ pendingReads' = pendingReads
                  /\ EventsOf(e, "download") = {} /\ EventsOf(e, "downloadAsync") = {}
                  /\ EventsOf(e, "runQuery") = {}
             ELSE d.texture # NullTexture =>
                  IF asyncExtension
                  THEN /\ last'.await = "async"
                       /\ e = <<Ev("downloadAsync", 0, d.texture, NoKey)>>
                       /\ Len(pendingReads') = Len(pendingReads) + 1
                  ELSE IF timerVersion = 0
                  THEN /\ last'.await = "none" /\ pendingReads' = pendingReads
                       /\ e[1] = Ev("download", 0, d.texture, NoKey)
                       /\ EventsOf(e, "runQuery") = {} /\ EventsOf(e, "downloadAsync") = {}
                       /\ last'.ret = texData'[h].values /\ last'.ret # NullValues
                  ELSE /\ last'.await = "query"
                       /\ e = <<Ev("runQuery", h, NullTexture, NoKey)>>
                       /\ Len(pendingReads') = Len(pendingReads) + 1
                       /\ texData' = texData /\ texContents' = texContents
     /\ (/\ last'.op = "readResume"
         /\ last'.input.values = NullValues
         /\ last'.args[1] \in DOMAIN texData) =>
          LET h == last'.args[1]
              d == texData[h]
              e == last'.events
          IN /\ EventsOf(e, "runQuery") = {} /\ EventsOf(e, "downloadAsync") = {}
             /\ IF d.values # NullValues
                THEN EventsOf(e, "download") = {} /\ last'.ret = d.values
                ELSE d.texture # NullTexture =>
                       /\ e[1] = Ev("download", 0, d.texture, NoKey)
                       /\ last'.ret = texData'[h].values /\ last'.ret # NullValues]_vars

C13_Witness ==
  /\ last.op = "readResume"
  /\ last.input.values = NullValues
  /\ last.err = NoError
  /\ EventsOf(last.events, "download") # {}

\* C14: the compile factory is invoked once per distinct shader key: no two
\* device programs are compiled for the same key, the cache holds for each
\* key that was dispatched the one program compiled for it (distinct keys,
\* distinct entries), and a dispatch whose key is in the cache runs the cached
\* program without compiling.
C14_CompileOncePerKey ==
  [][/\ \A i \in DOMAIN programs', j \in DOMAIN programs' :
          programs'[i] = programs'[j] => i = j
     /\ DOMAIN binaryCache' = {programs'[i] : i \in DOMAIN programs'}
     /\ \A i \in DOMAIN programs' : binaryCache'[programs'[i]] = i
     /\ LET e == last'.events IN
        \A r \in EventsOf(e, "run") :
          \E g \in EventsOf(e, "getBinary") :
            /\ g < r
            /\ e[g].bin = e[r].bin
            /\ e[r].bin = binaryCache'[e[g].key]
            /\ e[g].key \in DOMAIN binaryCache =>
                 /\ e[r].bin = binaryCache[e[g].key]
                 /\ EventsOf(e, "compile") = {}
            /\ e[g].key \notin DOMAIN binaryCache =>
                 Cardinality(EventsOf(e, "compile")) = 1]_vars

C14_Witness ==
  /\ last.op = "relu"
  /\ last.err = NoError
  /\ EventsOf(last.events, "run") # {}
  /\ EventsOf(last.events, "compile") = {}
  /\ Len(programs) = 1

CountIn(log, ev) == Cardinality({i \in DOMAIN log : log[i].ev = ev})
DeletedPrograms(log) == {log[i].bin : i \in EventsOf(log, "deleteProgram")}
DeletedTextures(log) == {log[i].tex : i \in EventsOf(log, "deleteMatrixTexture")}

\* C15: until dispose() a program-cache entry is never removed or replaced
\* and its program is not deleted: the cached keys only grow, a lookup of a
\* cached key returns the program stored first, and register, write, the
\* reads, disposeData and the residency calls leave the cache as it is.
C15_CacheOnlyGrows ==
  [][/\ \A key \in DOMAIN binaryCache :
          /\ key \in DOMAIN binaryCache'
          /\ binaryCache'[key] = binaryCache[key]
          /\ \A g \in EventsOf(last'.events, "getBinary") :
               last'.events[g].key = key => last'.events[g].bin = binaryCache[key]
     /\ ~disposed' =>
          {binaryCache'[key] : key \in DOMAIN binaryCache'} \cap DeletedPrograms(deviceLog') = {}
     /\ last'.op \in {"register", "write", "readSync", "read", "readResume",
                      "disposeData", "getTexture", "getTextureData"}
          => (binaryCache' = binaryCache /\ programs' = programs)]_vars

C15_Witness ==
  /\ last.op \in {"write", "readSync"}
  /\ last.err = NoError
  /\ HasEvent(last.events, "release")
  /\ DOMAIN binaryCache # {}

\* C16: the first dispose() deletes each cached program once, disposes the
\* texture manager once and disposes the GPGPU context once if and only if
\* the backend created it; every later dispose() does nothing.
C16_DisposeIdempotent ==
  [][last'.op = "dispose" =>
       LET e == last'.events IN
       /\ last'.err = NoError
       /\ disposed'
       /\ texData' = texData /\ freeTextures' = freeTextures
       /\ binaryCache' = binaryCache /\ programs' = programs
       /\ IF disposed
          THEN e = <<>> /\ deviceLog' = deviceLog
          ELSE /\ \A key \in DOMAIN binaryCache :
                    Cardinality({i \in EventsOf(e, "deleteProgram") :
                                   e[i].bin = binaryCache[key]}) = 1
               /\ CountIn(e, "deleteProgram") = Cardinality(DOMAIN binaryCache)
               /\ CountIn(e, "disposeTextureManager") = 1
               /\ CountIn(e, "disposeGPGPU") = IF gpgpuCreatedLocally THEN 1 ELSE 0
               /\ deviceLog' = SelectSeq(e, Teardown)]_vars

C16_Witness ==
  /\ last.op = "dispose"
  /\ last.events = <<>>
  /\ CountIn(deviceLog, "deleteProgram") = 1
  /\ CountIn(deviceLog, "disposeGPGPU") = 1

\* C17: once disposeData has been called for every registered handle no block
\* is attached to a record, every block is free in the pool; and once dispose()
\* has then torn the pool down no block is left allocated on the device.
C17_DisposalComplete ==
  DOMAIN texData = {} =>
    /\ \A t \in Blocks : FreeCount(t) = 1
    /\ disposed => Blocks \ DeletedTextures(deviceLog) = {}

C17_Witness ==
  /\ disposed
  /\ DOMAIN texData = {}
  /\ everDisposed # {}
  /\ Blocks # {}

\* The pool calls of one handler, replayed on the free lists it started
\* with: a block is created only while no block of its key is free, a block
\* that is acquired without being created is a free block of the key asked for,
\* and every call passes the key the block was created with.
RECURSIVE PoolCallsReuse(_, _, _)
PoolCallsReuse(free, events, createdFor) ==
  IF events = <<>> THEN TRUE
  ELSE LET e == Head(events)
           rest == Tail(events)
           Without(seq, t) == SelectSeq(seq, LAMBDA x : x # t)
       IN IF e.ev = "release"
          THEN /\ e.key = createdFor[e.tex]
               /\ PoolCallsReuse([free EXCEPT ![e.key] = Append(@, e.tex)], rest, createdFor)
          ELSE IF e.ev = "create"
          THEN /\ e.key = createdFor[e.tex]
               /\ free[e.key] = <<>>
               /\ PoolCallsReuse([free EXCEPT ![e.key] = <<e.tex>>], rest, createdFor)
          ELSE IF e.ev = "acquire"
          THEN /\ e.key = createdFor[e.tex]
               /\ \E i \in DOMAIN free[e.key] : free[e.key][i] = e.tex
               /\ PoolCallsReuse([free EXCEPT ![e.key] = Without(@, e.tex)], rest, createdFor)
          ELSE PoolCallsReuse(free, rest, createdFor)

\* C18: when a block has been released (by write, by a host read in
\* delayed-storage mode or by disposeData) the next upload that acquires a block
\* of the same texture shape and kind reuses a released block and allocates
\* nothing; every release passes the shape and kind its block was acquired with.
C18_PoolRoundTrip ==
  [][PoolCallsReuse(freeTextures, last'.events, allocatedTextures')]_vars

C18_Witness ==
  /\ last.op = "getTexture"
  /\ last.err = NoError
  /\ delayedStorage
  /\ HasEvent(last.events, "acquire")
  /\ ~HasEvent(last.events, "create")
  /\ last.args[1] \in DOMAIN written

RECURSIVE SumOf(_)
SumOf(row) == IF row = <<>> THEN 0 ELSE Head(row) + SumOf(Tail(row))
\* row b of the array the reduction was called with, b counted from 0
RowOf(x, b) == SubSeq(x.values, b * x.shape[2] + 1, (b + 1) * x.shape[2])
Returns(op) == reduceReturn.op = op /\ reduceReturn.err = "none"
MultiPass == Len(reduceReturn.passes) > 1
UnevenPass ==
  \E i \in DOMAIN reduceReturn.passes :
    reduceReturn.passes[i].reduceInfo.inSize % reduceReturn.passes[i].reduceInfo.windowSize # 0

\* C19: whatever window size every pass uses, sum over the inner axis of a
\* [batch, reduceSize] array returns, for each row, the sum of that row.
C19_SumIsRowSum ==
  Returns("sum") =>
    /\ reduceReturn.out.shape = <<reduceCall.shape[1]>>
    /\ reduceReturn.out.values =
         [b \in 1..reduceCall.shape[1] |-> SumOf(RowOf(reduceCall, b - 1))]

C19_Witness ==
  /\ Returns("sum")
  /\ reduceCall.shape = <<2, 7>>
  /\ MultiPass /\ UnevenPass
  /\ reduceReturn.out.values[1] # reduceReturn.out.values[2]

\* the lowest index (from 0) at which the row has its largest, resp. smallest, element
LowestIndexOf(row, reduceType) ==
  CHOOSE i \in 0..(Len(row) - 1) :
    /\ \A j \in DOMAIN row :
         IF reduceType = "max" THEN row[j] <= row[i + 1] ELSE row[j] >= row[i + 1]
    /\ \A j \in 1..i : row[j] # row[i + 1]

\* C20: whatever window size every pass uses, argMax returns for each row the
\* lowest index at which the maximum of the row occurs and argMin the lowest
\* index at which the minimum occurs.
C20_ArgLowestIndex ==
  /\ Returns("argMax") =>
       reduceReturn.out.values =
         [b \in 1..reduceCall.shape[1] |-> LowestIndexOf(RowOf(reduceCall, b - 1), "max")]
  /\ Returns("argMin") =>
       reduceReturn.out.values =
         [b \in 1..reduceCall.shape[1] |-> LowestIndexOf(RowOf(reduceCall, b - 1), "min")]

\* a row whose maximum occurs twice, the occurrences falling into different
\* windows of the first of several passes
C20_Witness ==
  /\ Returns("argMax")
  /\ MultiPass
  /\ LET row == RowOf(reduceCall, 0)
         w == reduceReturn.passes[1].reduceInfo.windowSize
         best == reduceReturn.out.values[1]
     IN \E j \in DOMAIN row :
          /\ row[j] = row[best + 1]
          /\ (j - 1) \div w # best \div w

ReductionReturned == reduceReturn.op # "none" /\ reduceReturn.err = "none"
PassesOf == reduceReturn.passes
InWidth(i) == PassesOf[i].reduceInfo.inSize
OutWidth(i) == PassesOf[i].outputShape[2]
\* the passes follow one another: the first takes the flattened input, every
\* later one the width the pass before left, all on the same batch size, and
\* only the last one leaves width 1
PassesChain ==
  /\ PassesOf # <<>>
  /\ Len(PassesOf) <= reduceCall.shape[2]
  /\ InWidth(1) = reduceCall.shape[2]
  /\ \A i \in DOMAIN PassesOf :
       /\ PassesOf[i].reduceInfo.batchSize = reduceCall.shape[1]
       /\ PassesOf[i].outputShape[1] = reduceCall.shape[1]
       /\ OutWidth(i) = CeilDiv(InWidth(i), PassesOf[i].reduceInfo.windowSize)
       /\ i > 1 => InWidth(i) = OutWidth(i - 1)
       /\ (OutWidth(i) = 1) <=> (i = Len(PassesOf))

\* C21 (as stated): a reduction takes finitely many passes, every pass leaves a
\* strictly smaller width than it was given, and the last pass, and no
\* earlier one, leaves shape [batch, 1].
C21_EveryPassShrinks ==
  ReductionReturned =>
    /\ PassesChain
    /\ \A i \in DOMAIN PassesOf : OutWidth(i) < InWidth(i)

\* C21 (amended): a reduction takes finitely many passes, every pass given a
\* width greater than 1 leaves a strictly smaller width, a reduction of width 1
\* takes one pass that leaves width 1, and the last pass, and no earlier one,
\* leaves shape [batch, 1].
C21_PassesShrinkToOne ==
  ReductionReturned =>
    /\ PassesChain
    /\ \A i \in DOMAIN PassesOf : InWidth(i) > 1 => OutWidth(i) < InWidth(i)
    /\ reduceCall.shape[2] = 1 => Len(PassesOf) = 1 /\ OutWidth(1) = 1

C21_Witness ==
  /\ Returns("argMin")
  /\ reduceCall.shape = <<2, 7>>
  /\ Len(PassesOf) = 3
  /\ OutWidth(1) = 4 /\ OutWidth(2) = 2 /\ OutWidth(3) = 1

ReductionOps == {"sum", "min", "max", "argMin", "argMax"}
\* the axes are the last dimensions of an array of that rank, in order
InnerMost(axes, rank) ==
  /\ Len(axes) <= rank
  /\ axes = [i \in 1..Len(axes) |-> rank - Len(axes) + i - 1]
\* the step is a call of a reduction on handle h with axes that are not the
\* innermost dimensions of the array h stands for
BadAxesCall ==
  /\ steps' = steps + 1
  /\ last'.op \in ReductionOps
  /\ \E x \in ArraysOf(last'.args[1]) : ~InnerMost(last'.input.axes, Len(x.shape))

\* C22: a reduction called with axes that are not the innermost dimensions
\* fails with an error and has done nothing before: no array registered, no
\* block acquired, nothing uploaded, no program compiled or run; records, pool
\* and program cache are as before.
C22_BadAxesFailFast ==
  [][BadAxesCall =>
       /\ last'.err.name = "AxesNotInnerMost"
       /\ last'.events = <<>>
       /\ nextDataId' = nextDataId
       /\ texData' = texData
       /\ freeTextures' = freeTextures
       /\ allocatedTextures' = allocatedTextures
       /\ texContents' = texContents
       /\ binaryCache' = binaryCache
       /\ programs' = programs]_vars

C22_Witness ==
  /\ last.op = "argMax"
  /\ last.err.name = "AxesNotInnerMost"
  /\ last.args[1] \in DOMAIN texData
  /\ texData[last.args[1]].values # NullValues
  /\ binaryCache # <<>>
  /\ \E key \in TexKeys : freeTextures[key] # <<>>

ArithmeticOps == {"multiply", "minimum", "maximum", "divide", "add", "subtract", "pow"}
ComparisonOps == {"equal", "notEqual", "less", "lessEqual", "greater", "greaterEqual",
                  "logicalAnd", "logicalOr"}
\* the wider of two encodings
Width(dtype) == IF dtype = "bool" THEN 1 ELSE IF dtype = "int32" THEN 2 ELSE 3
Wider(typeA, typeB) == IF Width(typeA) >= Width(typeB) THEN typeA ELSE typeB
\* the dtype the output of the last call was made with
OutputEncoding == texData[last.out.dataId].dtype
BinaryReturned(ops) ==
  /\ last.op \in ops
  /\ last.err = NoError
  /\ last.out.dataId \in DOMAIN texData

\* C23: the output of an arithmetic binary operation has the wider of the
\* encodings of its two operands, whatever their order; the output of a
\* comparison or logical operation is bool.
C23_OutputEncoding ==
  /\ BinaryReturned(ArithmeticOps) =>
       /\ last.out.dtype = Wider(texData[last.args[1]].dtype, texData[last.args[2]].dtype)
       /\ OutputEncoding = last.out.dtype
  /\ BinaryReturned(ComparisonOps) =>
       /\ last.out.dtype = "bool"
       /\ OutputEncoding = "bool"

\* what does hold: add, subtract, multiply and pow give the wider encoding
C23_UpcastOps ==
  BinaryReturned({"add", "subtract", "multiply", "pow"}) =>
    last.out.dtype = Wider(texData[last.args[1]].dtype, texData[last.args[2]].dtype)

\* minimum and maximum give the encoding of their first operand, divide float32
C23_FirstOperandOps ==
  /\ BinaryReturned({"minimum", "maximum"}) =>
       last.out.dtype = texData[last.args[1]].dtype
  /\ BinaryReturned({"divide"}) => last.out.dtype = "float32"

RECURSIVE ElapsedIn(_, _)
\* the time the device took for the programs of the log run while scope was running
ElapsedIn(log, scope) ==
  IF log = <<>> THEN 0
  ELSE (IF scope \in Head(log).scopes THEN Head(log).elapsed ELSE 0)
         + ElapsedIn(Tail(log), scope)
\* every time(f) call resolves to the time of the programs run during its f
ScopeSums ==
  \A i \in DOMAIN timeResults :
    timeResults[i].sum = ElapsedIn(dispatched, timeResults[i].scope)
\* a program is given a query exactly when it is run during a time(f) call
TimedInScope ==
  \A i \in DOMAIN dispatched : (dispatched[i].scopes # {}) <=> (dispatched[i].query # 0)
\* in the last call a query is started right before a program is run and ended
\* right after it, once each
QueryAroundRun ==
  LET ev == last.events IN
  /\ \A i \in DOMAIN ev :
       ev[i].ev = "startTimer" =>
         /\ i + 2 <= Len(ev)
         /\ ev[i + 1].ev = "run"
         /\ ev[i + 2].ev = "endTimer" /\ ev[i + 2].id = ev[i].id
  /\ \A i \in DOMAIN ev :
       ev[i].ev = "endTimer" =>
         i > 2 /\ ev[i - 2].ev = "startTimer" /\ ev[i - 2].id = ev[i].id
  /\ \A i, j \in DOMAIN ev :
       ev[i].ev = "startTimer" /\ ev[j].ev = "startTimer" /\ ev[i].id = ev[j].id => i = j

\* C24: a time(f) call resolves to the summed time of exactly the programs run
\* during its f, those of nested time calls included; a program run while no
\* time call is running gets no query and counts for no call; a timed program
\* has one query, started before and ended after its run.
C24_TimerScopes == ScopeSums /\ TimedInScope /\ QueryAroundRun

\* no time(f) call has been left by an exception
AllReturned == Len(timerNodes) = Len(timeFrames) + Len(timeResults)
\* what holds as long as every f returns
C24_WhenEveryCallReturns == AllReturned => C24_TimerScopes
\* a nested call and its outer call have resolved to different sums
C24_NestedReached ==
  /\ AllReturned
  /\ Len(timeResults) = 2
  /\ timeResults[1].sum # 0
  /\ timeResults[2].sum > timeResults[1].sum

ClonedFrom(h) == last'.op = "clone" /\ last'.err = NoError /\ last'.args = <<h>>
CloneAcquires == EventsOf(last'.events, "acquire")

\* what clone(x) does apart from acquiring blocks: no download, a result with
\* the logical shape and dtype of x under a handle registered by the call
\* whose block has the packed shape of x's and holds what x's block holds, and
\* x still registered, on the device, with the block it had
CloneFrame(h) ==
  LET o == last'.out.dataId
      e == last'.events
  IN /\ EventsOf(e, "download") = {}
     /\ EventsOf(e, "downloadAsync") = {}
     /\ last'.out.shape = texData[h].shape
     /\ last'.out.dtype = texData[h].dtype
     /\ o # h
     /\ o \notin DOMAIN texData
     /\ o \in DOMAIN texData'
     /\ h \in DOMAIN texData'
     /\ texData'[h].texture # NullTexture
     /\ texData[h].texture # NullTexture => texData'[h].texture = texData[h].texture
     /\ texData'[o].texture # NullTexture
     /\ texData'[o].texture # texData'[h].texture
     /\ texData'[o].texShape = texData'[h].texShape
     /\ \E i \in CloneAcquires : e[i].tex = texData'[o].texture
     /\ \A i \in CloneAcquires :
          e[i].key = getKeyFromTextureShape(texData'[h].texShape, texData'[h].texType)

\* C25 as stated: clone(x) of a registered handle downloads nothing, acquires
\* exactly one block, of x's packed shape, returns an array of x's logical
\* shape and dtype under a newly registered handle, and leaves x registered
\* and device-resident with its block attached.
C25_CloneAcquiresOne ==
  [][\A h \in Handles :
       ClonedFrom(h) => (CloneFrame(h) /\ Cardinality(CloneAcquires) = 1)]_vars

\* C25 as amended: the same, with exactly one block acquired for the result;
\* an x that has no block before the call (host-only, or registered and never
\* written) gets a block of its own as well, so two blocks are acquired then.
C25_CloneAcquiresOneForResult ==
  [][\A h \in Handles :
       ClonedFrom(h) =>
         /\ CloneFrame(h)
         /\ Cardinality(CloneAcquires) =
              (IF texData[h].texture # NullTexture THEN 1 ELSE 2)
         /\ Cardinality({i \in CloneAcquires :
                           last'.events[i].tex = texData'[last'.out.dataId].texture}) = 1]_vars

C25_Witness ==
  /\ last.op = "clone"
  /\ last.err = NoError
  /\ Cardinality(EventsOf(last.events, "acquire")) = 1
  /\ last.out.dataId \in DOMAIN texData
  /\ texData[last.args[1]].texture # NullTexture
  /\ texData[last.out.dataId].texShape = texData[last.args[1]].texShape

C25_HostOnlyCloned ==
  /\ last.op = "clone"
  /\ last.err = NoError
  /\ Cardinality(EventsOf(last.events, "acquire")) = 2
  /\ HasEvent(last.events, "upload")

\* the call changed nothing the backend holds and reached no array, block or
\* device operation
NothingDone ==
  /\ last'.events = <<>>
  /\ texData' = texData
  /\ freeTextures' = freeTextures
  /\ allocatedTextures' = allocatedTextures
  /\ texContents' = texContents
  /\ nextDataId' = nextDataId
  /\ registered' = registered

\* C26: fromPixels with a null pixel source, and fromPixels with a video
\* source on a backend without canvas, fail with an explicit error before any
\* array is registered or block acquired; write with null values fails and
\* leaves the record and block of the handle as they were.
C26_InvalidInputFailsFirst ==
  [][/\ (last'.op = "fromPixels" /\ last'.input.pixels = NullPixels)
          => (last'.err.name = "NullPixels" /\ NothingDone)
     /\ (last'.op = "fromPixels" /\ last'.input.pixels.kind = "video" /\ ~canvas)
          => (last'.err.name = "NoCanvas" /\ NothingDone)
     /\ (last'.op = "write" /\ last'.input.values = NullValues)
          => (last'.err.name = "NullValues" /\ NothingDone)]_vars

C26_Witness ==
  /\ last.op = "fromPixels"
  /\ last.input.pixels.kind = "video"
  /\ ~canvas
  /\ last.err.name = "NoCanvas"
  /\ last.events = <<>>

C26_NullWriteReached ==
  /\ last.op = "write"
  /\ last.input.values = NullValues
  /\ last.args[1] \in DOMAIN texData
  /\ texData[last.args[1]].texture # NullTexture

C26_NullPixelsReached ==
  /\ last.op = "fromPixels"
  /\ last.input.pixels = NullPixels
  /\ last.err.name = "NullPixels"

MinimizeReturned == last'.op = "minimize" /\ last'.err = NoError
\* the optimizer and every variable are disposed, and every cost returned
AllDisposed == optimizer = NullOptimizer /\ costs = {}

C27_CostReturned ==
  /\ last.op = "minimize"
  /\ last.input.returnCost
  /\ last.out.dataId \in costs
  /\ getNumArrays(Backend) = last.input.numArrays + 1

\* whether minimize is to update the variable: trainable, used by f, and in
\* the varList when one is given
ToUpdate(name) ==
  /\ registeredVariables[name].trainable
  /\ name \in last'.input.used
  /\ last'.input.varList.given => name \in last'.input.varList.names

C28_UpdatedChange ==
  [][MinimizeReturned =>
       \A name \in VariableNames :
         ToUpdate(name) => VariableValues(Backend')[name] # last'.input.values[name]]_vars

DispatchedOps == {"relu", "maximum", "clone"}
UploadedTo(t) ==
  \E i \in EventsOf(last'.events, "upload") : last'.events[i].tex = t

\* C29 as stated: when a dispatched operation returns successfully every
\* input and the output have a block attached; host values an input held
\* before the call are in its block and no longer in its record, the output
\* gets its block without an upload, and an input that had a block keeps it.
C29_HostValuesCleared ==
  [][(last'.op \in DispatchedOps /\ last'.err = NoError) =>
       LET o == last'.out.dataId IN
       /\ \A h \in ArgsOf(last') \cup {o} :
            /\ h \in DOMAIN texData'
            /\ texData'[h].texture # NullTexture
       /\ \A h \in ArgsOf(last') :
            /\ texData[h].values # NullValues =>
                 /\ UploadedTo(texData'[h].texture)
                 /\ texContents'[texData'[h].texture] =
                      typedArrayToFloat32(texData[h].values, texData[h].dtype).data
                 /\ texData'[h].values = NullValues
            /\ texData[h].texture # NullTexture => texData'[h].texture = texData[h].texture
       /\ o \notin DOMAIN texData
       /\ ~UploadedTo(texData'[o].texture)]_vars

\* C29 as amended: the host values of an input that has no block before the
\* call are uploaded into its block and cleared from the record; an input that
\* has a block keeps it, nothing is uploaded into it, and a host copy it holds
\* beside the block stays in the record.
C29_OperandsResident ==
  [][(last'.op \in DispatchedOps /\ last'.err = NoError) =>
       LET o == last'.out.dataId IN
       /\ \A h \in ArgsOf(last') \cup {o} :
            /\ h \in DOMAIN texData'
            /\ texData'[h].texture # NullTexture
       /\ \A h \in ArgsOf(last') :
            /\ (texData[h].texture = NullTexture /\ texData[h].values # NullValues) =>
                 /\ UploadedTo(texData'[h].texture)
                 /\ texContents'[texData'[h].texture] =
                      typedArrayToFloat32(texData[h].values, texData[h].dtype).data
                 /\ texData'[h].values = NullValues
            /\ texData[h].texture # NullTexture =>
                 /\ texData'[h].texture = texData[h].texture
                 /\ ~UploadedTo(texData[h].texture)
                 /\ texData'[h].values = texData[h].values
       /\ o \notin DOMAIN texData
       /\ texData'[o].values = NullValues
       /\ ~UploadedTo(texData'[o].texture)]_vars

C29_Witness ==
  /\ last.op \in DispatchedOps
  /\ last.err = NoError
  /\ HasEvent(last.events, "upload")
  /\ HasEvent(last.events, "acquire")
  /\ \A h \in ArgsOf(last) \cup {last.out.dataId} :
       texData[h].texture # NullTexture /\ texData[h].values = NullValues

C29_HostCopyKept ==
  /\ last.op \in DispatchedOps
  /\ last.err = NoError
  /\ ~HasEvent(last.events, "upload")
  /\ \E h \in ArgsOf(last) :
       texData[h].texture # NullTexture /\ texData[h].values # NullValues

ArgReturned == Returns("argMin") \/ Returns("argMax")
ExtremeAt(row, i, reduceType) ==
  \A j \in DOMAIN row :
    IF reduceType = "max" THEN row[j] <= row[i + 1] ELSE row[j] >= row[i + 1]

\* C30: in an arg-reduction only the first pass runs without a best-index
\* array; every later pass gets the original values array and the output of
\* the pass before as its best-index array, takes batch size and reduce size
\* from that array, and the output of the last pass, which is returned, holds
\* for every row a position of the original row where its extreme value is.
C30_BestIndicesPassedOn ==
  ArgReturned =>
    LET p == reduceReturn.passes
        x == as2D(reduceCall, reduceCall.shape[Len(reduceCall.shape)])
        reduceType == IF reduceReturn.op = "argMax" THEN "max" ELSE "min"
    IN /\ Len(p) >= 1
       /\ p[1].firstPass
       /\ p[1].inputs = <<x>>
       /\ p[1].reduceInfo.batchSize = x.shape[1]
       /\ p[1].reduceInfo.inSize = x.shape[2]
       /\ \A i \in 2..Len(p) :
            /\ ~p[i].firstPass
            /\ p[i].inputs = <<x, p[i - 1].output>>
            /\ p[i].reduceInfo.batchSize = p[i - 1].output.shape[1]
            /\ p[i].reduceInfo.inSize = p[i - 1].output.shape[2]
            /\ p[i].reduceInfo.inSize < x.shape[2]
       /\ reduceReturn.out.values = p[Len(p)].output.values
       /\ \A b \in 1..x.shape[1] :
            /\ reduceReturn.out.values[b] \in 0..(x.shape[2] - 1)
            /\ ExtremeAt(RowOf(x, b - 1), reduceReturn.out.values[b], reduceType)

\* three passes over rows of seven values, the extreme value of a row not in
\* the first window
C30_Witness ==
  /\ ArgReturned
  /\ Len(reduceReturn.passes) >= 3
  /\ reduceCall.shape[1] = 2
  /\ reduceReturn.out.values[1] >= reduceReturn.passes[1].reduceInfo.windowSize

HostAndDevice(h) ==
  texData[h].values # NullValues /\ texData[h].texture # NullTexture

\* C31: with delayedStorage no residency record ever has host values and a
\* block attached at the same time.
C31_HostOrDevice ==
  delayedStorage => \A h \in DOMAIN texData : ~HostAndDevice(h)

\* a handle was uploaded for an operation and has then been read back
C31_Witness ==
  /\ delayedStorage
  /\ last.op \in {"readSync", "readResume"}
  /\ last.err = NoError
  /\ HasEvent(last.events, "download") \/ last.input.values # NullValues
  /\ HasEvent(last.events, "release")
  /\ \E h \in DOMAIN texData :
       texData[h].values # NullValues /\ texData[h].texture = NullTexture
  /\ \E h \in DOMAIN texData :
       texData[h].values = NullValues /\ texData[h].texture # NullTexture

ReadOps == {"readSync", "read", "readResume"}
Downloads(events) ==
  {i \in DOMAIN events : events[i].ev \in {"download", "downloadAsync"}}

\* C32: every readSync and read of a registered handle either returns the
\* cached host values or downloads from a block attached to the record; none
\* fails on a record that has no block and no texture shape, such as one that
\* was registered and never written or used.
C32_ReadsServed ==
  (last.op \in ReadOps /\ ArgsOf(last) \subseteq DOMAIN texData)
    => /\ last.err = NoError
       /\ \A i \in Downloads(last.events) : last.events[i].tex # NullTexture

\* the reads of C32 fail only on a record without host values, block and shape
C32_OnlyBlankRecordsFail ==
  (last.op \in ReadOps /\ ArgsOf(last) \subseteq DOMAIN texData
     /\ last.err # NoError)
    => \A h \in ArgsOf(last) :
         /\ texData[h].values = NullValues
         /\ texData[h].texture = NullTexture
         /\ texData[h].texShape = NullShape

\* a dispatched operation failed on a handle that has no residency record
FailedOnInput(call) ==
  call.op \in DispatchedOps /\ call.err.name = "NoData"

\* C33: a dispatched operation that fails because an input handle is
\* unregistered or disposed leaves the backend as it was: no output record
\* stays registered, no block has been acquired, no host values are cleared.
C33_FailedDispatchLeavesState ==
  [][FailedOnInput(last')
       => /\ texData' = texData
          /\ freeTextures' = freeTextures
          /\ allocatedTextures' = allocatedTextures]_vars

\* ------------------------------------------------ a caller of the async reads
\* Two handles have been registered and written; the first has been uploaded,
\* the second has or has not.  From there on the handles are only read.
readsSetUp(in, values1, values2, uploaded) ==
  Then(register([NewBackend EXCEPT !.nextDataId = 2], 1, in[1], in[2]), LAMBDA b0 :
    Then(write(b0, 1, values1), LAMBDA b1 :
      Then(getTextureData(b1, 1), LAMBDA b2 :
        Then(register([b2 EXCEPT !.nextDataId = 3], 2, RepeatInput[1], RepeatInput[2]),
             LAMBDA b3 :
          Then(write(b3, 2, values2), LAMBDA b4 :
            IF uploaded THEN getTextureData(b4, 2) ELSE b4)))))

InitReads ==
  /\ delayedStorage \in BOOLEAN
  /\ \E env \in Environments : ConstructedIn(env)
  /\ \E in \in RegisterInputs, values1 \in WriteValues, values2 \in WriteValues,
        uploaded \in BOOLEAN :
       LET b == readsSetUp(in, values1, values2, uploaded) IN
       /\ texData = b.texData
       /\ freeTextures = b.freeTextures
       /\ allocatedTextures = b.allocatedTextures
       /\ texContents = b.texContents
       /\ nextDataId = b.nextDataId
       /\ registered = DOMAIN b.texData
       /\ written = (1 :> values1) @@ (2 :> values2)
       /\ ensured = {h \in DOMAIN b.texData : b.texData[h].texture # NullTexture}
  /\ binaryCache = <<>>
  /\ programs = <<>>
  /\ disposed = FALSE
  /\ deviceLog = <<>>
  /\ pendingReads = <<>>
  /\ steps = 0
  /\ last = [op |-> "init", args |-> <<>>, input |-> NoInput, err |-> NoError,
             ret |-> NullValues, out |-> NullArray, events |-> <<>>, await |-> "none"]
  /\ everDisposed = {}
  /\ activeTimers = NullTimers
  /\ programTimersStack = NullTimers
  /\ timerNodes = <<>>
  /\ queries = <<>>
  /\ timeFrames = <<>>
  /\ timeResults = <<>>
  /\ dispatched = <<>>
  /\ registeredVariables = <<>>
  /\ optimizer = NullOptimizer
  /\ costs = {}
  /\ reduceCall = NoCall
  /\ reduceReturn = NoReturn

NextReads ==
  \/ \E h \in Issued : Read(h)
  \/ \E i \in DOMAIN pendingReads : ReadResume(i)

SpecReads == InitReads /\ [][NextReads]_vars

Releases(events) == {i \in DOMAIN events : events[i].ev = "release"}

\* C34: with delayedStorage, when asynchronous reads of one device-resident
\* handle overlap, the read that resumes first releases the block of the
\* handle, once, while the block is attached to the handle and not free; a
\* read that resumes after it releases nothing and resolves to the same values;
\* the block is in the pool once.
C34_OverlappingReads ==
  [][(delayedStorage /\ last'.op = "readResume" /\ last'.err = NoError)
       => LET h == last'.args[1]
              t == texData[h].texture
              e == last'.events
          IN /\ t = NullTexture => Releases(e) = {}
             /\ t # NullTexture
                  => /\ Cardinality(Releases(e)) = 1
                     /\ \A i \in Releases(e) : e[i].tex = t
                     /\ FreeCount(t) = 0 /\ AttachCount(t) = 1
             /\ \A u \in Blocks : FreeCountIn(freeTextures', u) <= 1
             /\ texData'[h].texture = NullTexture
             /\ texData[h].values # NullValues => last'.ret = texData[h].values]_vars

\* two reads of a handle were suspended together and the first has resumed
C34_Witness ==
  /\ delayedStorage
  /\ last.op = "readResume" /\ last.err = NoError
  /\ Cardinality(Releases(last.events)) = 1
  /\ \E i \in DOMAIN pendingReads : pendingReads[i].dataId = last.args[1]

\* the second of them has resumed as well, after the block was released
C34_BothResumed ==
  /\ delayedStorage
  /\ last.op = "readResume" /\ last.err = NoError
  /\ Releases(last.events) = {}
  /\ pendingReads = <<>>
  /\ \E t \in Blocks : FreeCount(t) = 1
  /\ last.ret = texData[last.args[1]].values

\* the TimerNode array of the innermost time(f) call that is running f
ScopeOfRunning ==
  IF timeFrames = <<>> THEN NullTimers
  ELSE timeFrames[Len(timeFrames)].newActiveTimers

\* C35: once a time(f) call is over, by return or by an exception of f, the
\* active timer scope is the one of the call around it; once an outermost call
\* is over no scope is active and a program dispatched then starts no query.
C35_ScopeRestored ==
  /\ activeTimers = ScopeOfRunning
  /\ timeFrames = <<>> => programTimersStack = NullTimers
  /\ (timeFrames = <<>> /\ last.op \in DispatchedOps)
       => ~HasEvent(last.events, "startTimer")

\* what holds as long as every f returns
C35_WhenEveryCallReturns == AllReturned => C35_ScopeRestored

\* ------------------------------- a caller of the operations with intermediates
\* Arrays for max pooling are registered and written, pixels are ingested and
\* the gradient of a max pooling is taken.
\* a pooling of a column of two elements into one
ConvInfo == [inShape |-> <<1, 2, 1, 1>>, outShape |-> <<1, 1, 1, 1>>, filterHeight |-> 2]
PoolInputs == {<<ConvInfo.inShape, "float32">>, <<ConvInfo.outShape, "float32">>}
PoolValues(shape) ==
  IF sizeFromShape(shape) = 1 THEN {Float32Array(<<Num(3)>>)}
  ELSE {Float32Array(<<Num(1), Num(2)>>), Float32Array(<<Half(1), NaN>>)}
\* the data ids this caller lets the allocation layer issue
MaxIntermediateId == MaxHandles + 4

WritePooled(h) ==
  /\ h \in DOMAIN texData
  /\ \E values \in PoolValues(texData[h].shape) : Write(h, values)

IngestPixels(pixels) ==
  /\ nextDataId + 1 <= MaxIntermediateId
  /\ Commit(fromPixels(Backend, pixels, 1), "fromPixels", <<>>, {},
            [NoInput EXCEPT !.pixels = pixels])
  /\ UNCHANGED pendingReads

MaxPoolBackprop(h1, h2) ==
  /\ nextDataId + 1 <= MaxIntermediateId
  /\ \E dy \in ArraysOf(h1), x \in ArraysOf(h2) :
       /\ h1 \in DOMAIN texData => dy.shape = ConvInfo.outShape
       /\ h2 \in DOMAIN texData => x.shape = ConvInfo.inShape
       /\ Commit(maxPoolBackprop(Backend, dy, x, ConvInfo), "maxPoolBackprop",
                 <<h1, h2>>, {}, NoInput)
  /\ UNCHANGED pendingReads

NextIntermediates ==
  \/ \E in \in PoolInputs : Register(nextDataId, in[1], in[2])
  \/ \E h \in Issued : WritePooled(h)
  \/ \E pixels \in PixelSources : IngestPixels(pixels)
  \/ \E h1 \in Issued, h2 \in Issued : MaxPoolBackprop(h1, h2)

SpecIntermediates == Init /\ [][NextIntermediates]_vars

IntermediateOps == {"fromPixels", "maxPoolBackprop"}
\* the arrays the last call has made and disposed
Intermediates(events) == IdsOf(events, "register") \cap IdsOf(events, "delete")

\* C36: a successful fromPixels or maxPoolBackprop leaves one record more than
\* there were, that of its result; its intermediate array is disposed, and the
\* block of the intermediate goes back to the pool under the shape and storage
\* kind it was acquired with, UNSIGNED_BYTE for the pixel array.
C36_IntermediateDisposed ==
  [][(last'.op \in IntermediateOps /\ last'.err = NoError)
       => LET e == last'.events IN
          /\ last'.out.dataId \notin DOMAIN texData
          /\ DOMAIN texData' = DOMAIN texData \cup {last'.out.dataId}
          /\ Cardinality(Intermediates(e)) = 1
          /\ Cardinality(Releases(e)) = 1
          /\ \A i \in Releases(e) :
               /\ i > 1 /\ e[i - 1].ev = "disposeData"
               /\ e[i - 1].id \in Intermediates(e)
               /\ \E j \in 1..(i - 1) :
                    /\ e[j].ev = "acquire"
                    /\ e[j].tex = e[i].tex
                    /\ e[j].key = e[i].key
               /\ last'.op = "fromPixels" => e[i].key[2] = "UNSIGNED_BYTE"
               /\ FreeCountIn(freeTextures', e[i].tex) = 1
               /\ \A h \in DOMAIN texData' : texData'[h].texture # e[i].tex]_vars

\* the gradient of a max pooling has been taken and its positions array is gone
C36_Witness ==
  /\ last.op = "maxPoolBackprop" /\ last.err = NoError
  /\ Cardinality(DOMAIN texData) = 3
  /\ \E t \in Blocks : FreeCount(t) = 1 /\ allocatedTextures[t][2] = "FLOAT"
  /\ texData[last.out.dataId].shape = ConvInfo.inShape

\* pixels have been ingested after it, and the byte block is in the pool
C36_PixelsIngested ==
  /\ last.op = "fromPixels" /\ last.err = NoError
  /\ Cardinality(DOMAIN texData) = 4
  /\ \E t \in Blocks : FreeCount(t) = 1 /\ allocatedTextures[t][2] = "UNSIGNED_BYTE"


====
